---- MODULE Spec2Model ----
(***************************************************************************)
(* A model of SpacetimeDBConnectionManager                                 *)
(* (src/src/spacetimedb-connection.ts): the session state, the             *)
(* asynchronous public operations with their await points, and the remote  *)
(* collaborators (HTTP endpoints, the streaming channel of the SDK, the    *)
(* command-line client) as nondeterministic environments.                  *)
(*                                                                         *)
(* Text is a sequence of tokens (a token is a character or an atomic       *)
(* fragment); JavaScript values are one-field records named after their    *)
(* type, so that values of different types compare unequal.                *)
(***************************************************************************)
EXTENDS Integers, Sequences, FiniteSets, TLC

\* ------------------------------------------------------------------ bounds
\* Number of invocations that reach an await point in one behaviour (an
\* invocation that completes without awaiting is not counted).
MaxCalls == 3
\* Number of invocations that may be awaiting at the same time.
MaxInFlight == 2

CallIds == 1..MaxCalls

\* ------------------------------------------------------------ JS values
Null == [null |-> TRUE]
Undefined == [undefined |-> TRUE]
JNum(n) == [number |-> n]
JNaN == [nan |-> TRUE]
JStr(s) == [string |-> s]
JBool(b) == [boolean |-> b]
JArr(a) == [array |-> a]
JObj(o) == [object |-> o]

\* A null check that lets undefined through.
IsNullish_nullOnly(v) == v = Null

IsNullish(v) == v = Null \/ v = Undefined

\* ------------------------------------------------------------ text helpers
\* String.prototype.startsWith for a prefix that is one token.
startsWith(s, p) == Len(s) >= 1 /\ s[1] = p

\* String.prototype.replace(p, q) with a string pattern: the first occurrence.
replace(s, p, q) ==
  IF \E i \in 1..Len(s) : s[i] = p
  THEN LET i == CHOOSE k \in 1..Len(s) : s[k] = p /\ \A j \in 1..(k - 1) : s[j] # p
       IN  [s EXCEPT ![i] = q]
  ELSE s

Digits == <<"0", "1", "2", "3", "4", "5", "6", "7", "8", "9">>
IsDigit(ch) == \E d \in 1..10 : Digits[d] = ch
DigitVal(ch) == (CHOOSE d \in 1..10 : Digits[d] = ch) - 1
IsSpace(ch) == ch \in {" ", "\n", "\t"}

RECURSIVE NatText(_)
NatText(n) == IF n < 10 THEN <<Digits[n + 1]>> ELSE NatText(n \div 10) \o <<Digits[(n % 10) + 1]>>

\* Number.prototype.toString for an integer.
NumText(n) == IF n < 0 THEN <<"-">> \o NatText(-n) ELSE NatText(n)

\* The value of a sequence of digits.
RECURSIVE DigitsVal(_)
DigitsVal(s) == IF s = << >> THEN 0 ELSE 10 * DigitsVal(SubSeq(s, 1, Len(s) - 1)) + DigitVal(s[Len(s)])

\* The longest prefix of s made of digits.
RECURSIVE DigitPrefix(_)
DigitPrefix(s) == IF s # << >> /\ IsDigit(s[1]) THEN <<s[1]>> \o DigitPrefix(Tail(s)) ELSE << >>

RECURSIVE TrimStart(_)
TrimStart(s) == IF s # << >> /\ IsSpace(s[1]) THEN TrimStart(Tail(s)) ELSE s

RECURSIVE TrimEnd(_)
TrimEnd(s) == IF s # << >> /\ IsSpace(s[Len(s)]) THEN TrimEnd(SubSeq(s, 1, Len(s) - 1)) ELSE s

\* String.prototype.trim.
Trim(s) == TrimEnd(TrimStart(s))

\* parseInt(s, 10): leading blanks, an optional sign, then the digit prefix.
parseInt(s) ==
  LET t == TrimStart(s)
      neg == t # << >> /\ t[1] = "-"
      u == IF t # << >> /\ t[1] \in {"-", "+"} THEN Tail(t) ELSE t
      d == DigitPrefix(u)
  IN  IF d = << >> THEN JNaN ELSE JNum(IF neg THEN -DigitsVal(d) ELSE DigitsVal(d))

\* Number(s) for text: blank is 0, a signed integer numeral its value, else NaN.
StringToNumber(s) ==
  LET t == Trim(s)
      neg == t # << >> /\ t[1] = "-"
      u == IF t # << >> /\ t[1] \in {"-", "+"} THEN Tail(t) ELSE t
  IN  IF t = << >> THEN JNum(0)
      ELSE IF u # << >> /\ DigitPrefix(u) = u
        THEN JNum(IF neg THEN -DigitsVal(u) ELSE DigitsVal(u))
      ELSE JNaN

\* String.prototype.split(sep) for a separator that is one character.
RECURSIVE Split(_, _)
Split(s, sep) ==
  IF \E i \in 1..Len(s) : s[i] = sep
  THEN LET i == CHOOSE k \in 1..Len(s) : s[k] = sep /\ \A j \in 1..(k - 1) : s[j] # sep
       IN  <<SubSeq(s, 1, i - 1)>> \o Split(SubSeq(s, i + 1, Len(s)), sep)
  ELSE <<s>>

\* ------------------------------------------------------- JS value helpers
IsNum(v) == "number" \in DOMAIN v
IsStr(v) == "string" \in DOMAIN v
IsBool(v) == "boolean" \in DOMAIN v
IsArr(v) == "array" \in DOMAIN v
IsPlainObj(v) == "object" \in DOMAIN v
IsDate(v) == "date" \in DOMAIN v \/ "invalidDate" \in DOMAIN v
JDate(ms) == [date |-> ms]
InvalidDate == [invalidDate |-> TRUE]

\* typeof v === 'object' for a value that is not null.
TypeofObject(v) == IsArr(v) \/ IsPlainObj(v) \/ IsDate(v)

\* Property access on a plain object held as a sequence of <<key, value>> pairs.
Has(o, k) == \E i \in 1..Len(o.object) : o.object[i][1] = k
\* A built-in function value, named after the method it is.
JFunction(name) == [function |-> name]
\* The property names the decoder asks for that every array inherits from
\* Array.prototype: 'some' is an array method.
ArrayPrototype == {<<"some">>}
Get(o, k) ==
  IF IsArr(o) THEN (IF k \in ArrayPrototype THEN JFunction(k) ELSE Undefined)
  ELSE IF Has(o, k) THEN o.object[CHOOSE i \in 1..Len(o.object) : o.object[i][1] = k][2]
  ELSE Undefined

\* o[k] = v: an existing key keeps its place, a new key is appended.
Set(o, k, v) ==
  IF Has(o, k)
  THEN JObj([i \in 1..Len(o.object) |->
              IF o.object[i][1] = k THEN <<k, v>> ELSE o.object[i]])
  ELSE JObj(Append(o.object, <<k, v>>))

\* `k in v` for a value with typeof 'object' and a key that is no array index:
\* an own key of a plain object, or a name an array inherits.
In(k, v) == (IsPlainObj(v) /\ Has(v, k)) \/ (IsArr(v) /\ k \in ArrayPrototype)

\* v[k] for a property name k that no prototype defines.
Prop(v, k) == IF IsPlainObj(v) THEN Get(v, k) ELSE Undefined

\* v[i] for a 0-based index i into an array.
At(v, i) == IF i >= 0 /\ i < Len(v.array) THEN v.array[i + 1] ELSE Undefined

RECURSIVE ToText(_)
RECURSIVE JoinText(_)
\* Array.prototype.join(","): null and undefined render as the empty text.
JoinText(a) ==
  IF a = << >> THEN << >>
  ELSE LET h == IF IsNullish(a[1]) THEN << >> ELSE ToText(a[1])
       IN  IF Len(a) = 1 THEN h ELSE h \o <<",">> \o JoinText(Tail(a))

\* String(v) and `${v}`.
ToText(v) ==
  IF IsStr(v) THEN v.string
  ELSE IF IsNum(v) THEN NumText(v.number)
  ELSE IF v = JNaN THEN <<"NaN">>
  ELSE IF IsBool(v) THEN (IF v.boolean THEN <<"true">> ELSE <<"false">>)
  ELSE IF v = Null THEN <<"null">>
  ELSE IF v = Undefined THEN <<"undefined">>
  ELSE IF IsArr(v) THEN JoinText(v.array)
  ELSE IF "date" \in DOMAIN v THEN <<"Date(">> \o NumText(v.date) \o <<")">>
  ELSE IF v = InvalidDate THEN <<"Invalid Date">>
  ELSE IF "function" \in DOMAIN v THEN <<"function ">> \o v.function \o <<"() { [native code] }">>
  ELSE <<"[object Object]">>

\* Number(v).
ToNumber(v) ==
  IF IsNum(v) \/ v = JNaN THEN v
  ELSE IF IsBool(v) THEN JNum(IF v.boolean THEN 1 ELSE 0)
  ELSE IF IsStr(v) THEN StringToNumber(v.string)
  ELSE IF v = Null THEN JNum(0)
  ELSE IF IsArr(v) THEN StringToNumber(ToText(v))
  ELSE IF "date" \in DOMAIN v THEN JNum(v.date)
  ELSE JNaN

\* Boolean(v).
ToBoolean(v) ==
  ~(IsNullish(v) \/ v = JNaN \/ v = JNum(0) \/ v = JStr(<< >>) \/ v = JBool(FALSE))

\* x / 1000 then TimeClip: the quotient truncated toward zero.
DivTrunc(x, k) == IF x >= 0 THEN x \div k ELSE -((-x) \div k)

\* A conversion that scales a Date it is given once more.
NewDate_rescaled(v) ==
  IF IsNum(v) THEN JDate(v.number)
  ELSE IF IsBool(v) THEN JDate(IF v.boolean THEN 1 ELSE 0)
  ELSE IF "date" \in DOMAIN v THEN JDate(DivTrunc(v.date, 1000))
  ELSE InvalidDate

\* new Date(v): a number is a time in milliseconds, a Date is copied, text that
\* is no date and every other object give an invalid date.
NewDate(v) ==
  IF IsNum(v) THEN JDate(v.number)
  ELSE IF IsBool(v) THEN JDate(IF v.boolean THEN 1 ELSE 0)
  ELSE IF IsDate(v) THEN v
  ELSE InvalidDate

\* ----------------------------------------------------------- type decoder
\* A TypeError raised while decoding (a property read on undefined or null).
TypeError == [thrown |-> <<"TypeError">>]
IsThrown(r) == "thrown" \in DOMAIN r

IntTypes == {"U8", "U16", "U32", "U64", "U128", "I8", "I16", "I32", "I64", "I128"}
FloatTypes == {"F32", "F64"}

\* parseFloat(s): over text without a decimal point or exponent, the signed digit prefix.
parseFloat(s) == parseInt(s)

HexDigits == <<"0", "1", "2", "3", "4", "5", "6", "7", "8", "9", "a", "b", "c", "d", "e", "f">>
RECURSIVE HexNat(_)
HexNat(n) == IF n < 16 THEN <<HexDigits[n + 1]>> ELSE HexNat(n \div 16) \o <<HexDigits[(n % 16) + 1]>>

\* b.toString(16).padStart(2, '0') of one element of __identity_bytes.
byteHex(b) ==
  LET t == IF IsNum(b) THEN (IF b.number < 0 THEN <<"-">> \o HexNat(-b.number) ELSE HexNat(b.number))
           ELSE ToText(b)
  IN  IF Len(t) < 2 THEN [i \in 1..(2 - Len(t)) |-> "0"] \o t ELSE t

\* A text result prefixed by head, an exception passed on.
prefixText(head, rest) == IF IsThrown(rest) THEN rest ELSE JStr(head \o rest.string)

\* A list result prefixed by head, the first exception passed on.
prefixItem(head, rest) ==
  IF IsThrown(head) THEN head ELSE IF IsThrown(rest) THEN rest ELSE JArr(<<head>> \o rest.array)

RECURSIVE bytesHex(_)
bytesHex(bytes) ==
  IF bytes = << >> THEN JStr(<< >>)
  ELSE IF IsNullish(bytes[1]) THEN TypeError
  ELSE prefixText(byteHex(bytes[1]), bytesHex(Tail(bytes)))

\* A variant lookup that counts the variants from one.
variantName_oneBased(type, tag) ==
  LET k == ToText(tag)
      vs == IF "variants" \in DOMAIN type THEN type.variants ELSE << >>
      hit == {i \in 1..Len(vs) : NumText(i) = k}
      named == {i \in hit : "name" \in DOMAIN vs[i] /\ vs[i].name # << >>}
  IN  IF named # {} THEN vs[CHOOSE i \in named : TRUE].name ELSE <<"Variant">> \o k

\* typeAny.variants?.[value.tag]?.name || `Variant${value.tag}`, lines 403.
variantName(type, tag) ==
  LET k == ToText(tag)
      vs == IF "variants" \in DOMAIN type THEN type.variants ELSE << >>
      hit == {i \in 1..Len(vs) : NumText(i - 1) = k}
      named == {i \in hit : "name" \in DOMAIN vs[i] /\ vs[i].name # << >>}
  IN  IF named # {} THEN vs[CHOOSE i \in named : TRUE].name ELSE <<"Variant">> \o k

RECURSIVE convertValue(_, _)
RECURSIVE convertElements(_, _, _, _)
RECURSIVE convertItems(_, _)

\* A field name whose synthetic form counts fields from one.
fieldNameOf_oneBased(elem, idx) ==
  IF "name" \in DOMAIN elem /\ elem.name # << >> THEN elem.name ELSE <<"field_">> \o NumText(idx + 1)

\* elem.name || `field_${idx}`, line 389.
fieldNameOf(elem, idx) ==
  IF "name" \in DOMAIN elem /\ elem.name # << >> THEN elem.name ELSE <<"field_">> \o NumText(idx)

\* A field read that goes by name whatever the shape of the value.
fieldValueOf_byName(value, idx, fieldName) == Prop(value, fieldName)

\* Array.isArray(value) ? value[idx] : value[fieldName], lines 322 and 390.
fieldValueOf(value, idx, fieldName) ==
  IF IsArr(value) THEN At(value, idx) ELSE Prop(value, fieldName)

\* converted[fieldName] = field, then the remaining fields; an exception ends the loop.
storeElement(value, elements, idx, converted, fieldName, field) ==
  IF IsThrown(field) THEN field
  ELSE convertElements(value, elements, idx + 1, Set(converted, fieldName, field))

\* convertValue, lines 383-396: the fields of a product from index idx on.
convertElements(value, elements, idx, converted) ==
  IF idx >= Len(elements) THEN converted
  ELSE storeElement(value, elements, idx, converted, fieldNameOf(elements[idx + 1], idx),
         convertValue(fieldValueOf(value, idx, fieldNameOf(elements[idx + 1], idx)),
                      IF "ty" \in DOMAIN elements[idx + 1] THEN elements[idx + 1].ty
                      ELSE Undefined))

\* A map that leaves out the elements that are null.
convertItems_compact(items, ty) ==
  IF items = << >> THEN JArr(<< >>)
  ELSE IF items[1] = Null THEN convertItems(Tail(items), ty)
  ELSE prefixItem(convertValue(items[1], ty), convertItems(Tail(items), ty))

\* value.map(v => this.convertValue(v, element_ty)), line 412.
convertItems(items, ty) ==
  IF items = << >> THEN JArr(<< >>)
  ELSE prefixItem(convertValue(items[1], ty), convertItems(Tail(items), ty))

\* convertValue, lines 332-430. The result is the native value, or TypeError
\* when the code throws.
convertValue(value, type) ==
  IF IsNullish(value) THEN Null
  ELSE IF IsNullish(type) THEN TypeError
  ELSE LET typeName == IF "type" \in DOMAIN type THEN type.type ELSE "" IN
    IF typeName \in IntTypes
      THEN IF IsStr(value) THEN parseInt(value.string) ELSE ToNumber(value)
    ELSE IF typeName \in FloatTypes
      THEN IF IsStr(value) THEN parseFloat(value.string) ELSE ToNumber(value)
    ELSE IF typeName = "Bool" THEN JBool(ToBoolean(value))
    ELSE IF typeName = "String" THEN JStr(ToText(value))
    ELSE IF typeName = "Timestamp"
      THEN IF TypeofObject(value) /\ In(<<"microseconds_since_epoch">>, value)
           THEN LET us == Get(value, <<"microseconds_since_epoch">>)
                    n == IF us = Undefined THEN JNaN ELSE ToNumber(us)
                IN  IF IsNum(n) THEN JDate(DivTrunc(n.number, 1000)) ELSE InvalidDate
           ELSE NewDate(value)
    ELSE IF typeName = "Identity"
      THEN IF TypeofObject(value) /\ In(<<"__identity_bytes">>, value)
           THEN LET bytes == Get(value, <<"__identity_bytes">>)
                IN  IF IsArr(bytes)
                    THEN bytesHex(bytes.array)
                    ELSE JStr(ToText(value))
           ELSE JStr(ToText(value))
    ELSE IF typeName = "Product"
      THEN IF TypeofObject(value) /\ "elements" \in DOMAIN type
           THEN convertElements(value, type.elements, 0, JObj(<< >>))
           ELSE value
    ELSE IF typeName = "Sum"
      THEN IF TypeofObject(value) /\ In(<<"tag">>, value)
           THEN JObj(<< <<<<"variant">>, JStr(variantName(type, Get(value, <<"tag">>)))>>,
                        <<<<"value">>, Get(value, <<"value">>)>> >>)
           ELSE value
    ELSE IF typeName = "Array"
      THEN IF IsArr(value) /\ "element_ty" \in DOMAIN type
           THEN convertItems(value.array, type.element_ty)
           ELSE value
    ELSE IF typeName = "Option"
      THEN IF TypeofObject(value) /\ In(<<"some">>, value)
           THEN IF "some_ty" \in DOMAIN type
                THEN convertValue(Get(value, <<"some">>), type.some_ty)
                ELSE Get(value, <<"some">>)
           ELSE IF "some_ty" \in DOMAIN type THEN convertValue(value, type.some_ty) ELSE value
    ELSE value

\* convertRowTypes, lines 318-327: the columns of a row from index idx on.
RECURSIVE convertColumns(_, _, _, _)

\* converted[column.name] = v, then the remaining columns; an exception ends the loop.
storeColumn(row, columns, idx, converted, v) ==
  IF IsThrown(v) THEN v
  ELSE convertColumns(row, columns, idx + 1, Set(converted, columns[idx + 1].name, v))

convertColumns(row, columns, idx, converted) ==
  IF idx >= Len(columns) THEN converted
  ELSE storeColumn(row, columns, idx, converted,
         convertValue(fieldValueOf(row, idx, columns[idx + 1].name), columns[idx + 1].ty))

\* convertRowTypes, lines 318-327. A null or undefined row makes the property
\* read throw as soon as there is a column to read.
convertRowTypes(row, tableSchema) ==
  IF IsNullish(row) /\ Len(tableSchema.columns) > 0 THEN TypeError
  ELSE convertColumns(row, tableSchema.columns, 0, JObj(<< >>))

\* rawRows.map(row => this.convertRowTypes(row, tableSchema)), line 535.
RECURSIVE convertRows(_, _)
convertRows(rawRows, tableSchema) ==
  IF rawRows = << >> THEN JArr(<< >>)
  ELSE prefixItem(convertRowTypes(rawRows[1], tableSchema), convertRows(Tail(rawRows), tableSchema))

\* ------------------------------------------------------------ query builder
\* queryTable, lines 481-488: one filter entry, `key = literal`.
condition(key, value) ==
  IF IsStr(value)
  THEN key \o <<" = '">>
           \o [i \in 1..Len(value.string) |->
                 IF value.string[i] = "'" THEN "''" ELSE value.string[i]]
           \o <<"'">>
  ELSE key \o <<" = ">> \o ToText(value)

RECURSIVE conditions(_)
\* The entries of a filter joined by ' AND '.
conditions(entries) ==
  IF Len(entries) = 1 THEN condition(entries[1][1], entries[1][2])
  ELSE condition(entries[1][1], entries[1][2]) \o <<" AND ">> \o conditions(Tail(entries))

\* `if (filter && Object.keys(filter).length > 0)`: a filter is undefined or a
\* plain object.
hasConditions(filter) == IsPlainObj(filter) /\ Len(filter.object) > 0

\* queryTable, lines 477-490, and subscribeTable, lines 623-634.
selectQuery(tableName, filter) ==
  <<"SELECT * FROM ">> \o tableName
    \o (IF hasConditions(filter) THEN <<" WHERE ">> \o conditions(filter.object) ELSE << >>)

\* A builder that appends OFFSET whenever the offset is not negative.
buildQuery_offsetZero(tableName, filter, limit, offset) ==
  selectQuery(tableName, filter) \o <<" LIMIT ">> \o NumText(limit)
    \o (IF offset >= 0 THEN <<" OFFSET ">> \o NumText(offset) ELSE << >>)

\* queryTable, lines 477-496.
buildQuery(tableName, filter, limit, offset) ==
  selectQuery(tableName, filter) \o <<" LIMIT ">> \o NumText(limit)
    \o (IF offset > 0 THEN <<" OFFSET ">> \o NumText(offset) ELSE << >>)

\* ---------------------------------------------------------- URI normalizer
\* A normalizer that pairs schemes: wss:// gives https://.
httpUriOf_matching(uri) ==
  IF startsWith(uri, "wss://") THEN replace(uri, "wss://", "https://")
  ELSE IF startsWith(uri, "ws://") THEN replace(uri, "ws://", "http://")
  ELSE uri

\* A normalizer that upgrades a plaintext request URI to https://.
httpUriOf_secure(uri) ==
  IF startsWith(uri, "wss://") THEN replace(uri, "wss://", "http://")
  ELSE IF startsWith(uri, "ws://") THEN replace(uri, "ws://", "http://")
  ELSE IF startsWith(uri, "http://") THEN replace(uri, "http://", "https://")
  ELSE uri

\* connect, lines 111-129: the pair (httpUri, wsUri) of a caller's URI.
httpUriOf(uri) ==
  IF startsWith(uri, "wss://") THEN replace(uri, "wss://", "http://")
  ELSE IF startsWith(uri, "ws://") THEN replace(uri, "ws://", "http://")
  ELSE uri

wsUriOf(uri) ==
  IF startsWith(uri, "wss://") THEN uri
  ELSE IF startsWith(uri, "ws://") THEN uri
  ELSE IF startsWith(uri, "https://") THEN replace(uri, "https://", "wss://")
  ELSE IF startsWith(uri, "http://") THEN replace(uri, "http://", "ws://")
  ELSE uri

\* connect, lines 112-129: both forms of a caller's URI.
normalizeUri(uri) == <<httpUriOf(uri), wsUriOf(uri)>>

\* ------------------------------------------------------------ input domains
NoToken == Undefined
\* The (uri, moduleName, authToken) triples connect is invoked with.
ConnectArgs == { << <<"wss://", "h">>, <<"m1">>, NoToken >>,
                 << <<"https://", "h">>, <<"m2">>, JStr(<<"t">>) >> }

\* `if (authToken)`: undefined and the empty string are falsy.
Truthy(tok) == tok # Undefined /\ tok # JStr(<< >>)

\* Schema documents the schema endpoint can serve (DatabaseSchema, lines 42-46).
SchemaA ==
  [ typespace |-> 0,
    tables |-> << [ name |-> <<"user">>,
                    columns |-> << [name |-> <<"id">>, ty |-> [type |-> "U32"]],
                                   [name |-> <<"online">>, ty |-> [type |-> "Bool"]] >> ] >>,
    reducers |-> << [name |-> <<"set_name">>] >> ]

SchemaB ==
  [ typespace |-> 0,
    tables |-> << [ name |-> <<"user">>,
                    columns |-> << [name |-> <<"id">>, ty |-> [type |-> "String"]] >> ],
                  [ name |-> <<"msg">>,
                    columns |-> << [name |-> <<"text">>, ty |-> [type |-> "String"]] >> ] >>,
    reducers |-> << >> ]

\* The schema document the remote serves for a module.
SchemaOf(moduleName) == IF moduleName = <<"m1">> THEN SchemaA ELSE SchemaB

\* ------------------------------------------------------------------- state
VARIABLES
  connectionState,  \* this.connectionState: Null or a ConnectionState record
  subscriptions,    \* this.subscriptions: table name -> entry
  tableCache,       \* this.tableCache
  calls,            \* per invocation: operation, await point, captured locals, I/O so far
  nextCall,         \* number of invocations made
  channels,         \* per connect invocation: the streaming channel it built
  subRequests,      \* per subscribeTable invocation: its subscription request on the channel
  returned          \* the completion made by the last step, or NoReturn

vars == <<connectionState, subscriptions, tableCache, calls, nextCall, channels,
          subRequests, returned>>

manager == <<connectionState, subscriptions, tableCache>>

Idle == [op |-> "idle"]
NoReturn == [none |-> TRUE]
NoChannel == 0
EmptyMap == << >>

\* A completed invocation: the operation, the requests it sent, and what its
\* promise settled to.
Completion(op, io, outcome) == [op |-> op, io |-> io, outcome |-> outcome]
Return(v) == [return |-> v]
Throw(msg) == [throw |-> msg]
IsThrow(o) == "throw" \in DOMAIN o
IsReturn(o) == "return" \in DOMAIN o

Init ==
  /\ connectionState = Null
  /\ subscriptions = EmptyMap
  /\ tableCache = EmptyMap
  /\ calls = [c \in CallIds |-> Idle]
  /\ nextCall = 0
  /\ channels = [c \in CallIds |-> "none"]
  /\ subRequests = [c \in CallIds |-> "none"]
  /\ returned = NoReturn

\* isConnected, lines 311-313: this.connectionState?.connected ?? false.
isConnected == IF connectionState = Null THEN FALSE ELSE connectionState.connected

\* ensureConnected, lines 819-823.
NotConnectedError == <<"Not connected to SpacetimeDB. Use connect() first.">>

InFlight == {c \in CallIds : calls[c] # Idle}

\* The id the next awaiting invocation takes.
NewCall == nextCall + 1

\* The id of a new invocation that will wait for its collaborator.
FreshAsync(c) ==
  /\ nextCall < MaxCalls /\ c = NewCall
  /\ Cardinality(InFlight) < MaxInFlight
  /\ nextCall' = c

\* An invocation that was awaiting completes: its slot is released and its
\* outcome published.
Finish(c, op, io, outcome) ==
  /\ calls' = [calls EXCEPT ![c] = Idle]
  /\ returned' = Completion(op, io, outcome)

\* An invocation completes without having awaited.
Immediate(op, io, outcome) ==
  /\ returned' = Completion(op, io, outcome)
  /\ UNCHANGED <<calls, nextCall>>

\* An invocation reaches an await point.
Await(c, rec) ==
  /\ calls' = [calls EXCEPT ![c] = rec]
  /\ returned' = NoReturn

\* ------------------------------------------------------------ HTTP responses
HttpError == [ok |-> FALSE, status |-> "500", body |-> <<"boom">>]
NetworkFailure == [failure |-> <<"fetch failed">>]
HttpOk(body) == [ok |-> TRUE, status |-> "200", body |-> body]
IsFailure(r) == "failure" \in DOMAIN r

\* fetchSchema, lines 227-249: the schema, or the error it throws.
SchemaResponses(moduleName) ==
  { HttpOk([json |-> SchemaOf(moduleName)]), HttpOk([text |-> <<"<html>">>]),
    HttpError, NetworkFailure }

fetchSchemaResult(resp) ==
  IF IsFailure(resp) THEN Throw(resp.failure)
  ELSE IF ~resp.ok
    THEN Throw(<<"Failed to fetch schema: HTTP ", resp.status, " - ">> \o resp.body)
  ELSE IF "json" \in DOMAIN resp.body THEN Return(resp.body.json)
  ELSE Throw(<<"Unexpected token in JSON">>)

\* ----------------------------------------------------------------- connect
\* connect, lines 106-133: normalize the URI and send the schema request.
connect(c, uri, moduleName, authToken) ==
  /\ FreshAsync(c)
  /\ Await(c, [ op |-> "connect", pc |-> "fetchSchema",
                uri |-> httpUriOf(uri), wsUri |-> wsUriOf(uri),
                moduleName |-> moduleName, authToken |-> authToken,
                io |-> <<"GET schema">> ])
  /\ UNCHANGED <<manager, channels, subRequests>>

\* connect, lines 133-144 and 168-170: the schema response arrives; on success
\* connectWebSocket builds the channel (lines 176-222), else connect rethrows.
connect_fetchSchema(c) ==
  /\ calls[c].op = "connect" /\ calls[c].pc = "fetchSchema"
  /\ \E resp \in SchemaResponses(calls[c].moduleName) :
     LET r == fetchSchemaResult(resp) IN
     IF IsThrow(r)
     THEN /\ Finish(c, "connect", calls[c].io, Throw(<<"Connection failed: ">> \o r.throw))
          /\ UNCHANGED channels
     ELSE /\ Await(c, [calls[c] EXCEPT !.pc = "connectWebSocket",
                                       !.io = @ \o <<"ws open">>]
                         @@ [schema |-> r.return])
          /\ channels' = [channels EXCEPT ![c] = "connecting"]
  /\ UNCHANGED <<manager, nextCall, subRequests>>

\* The ConnectionState stored by connect, lines 147-157.
\* A session that keeps the cached schema of the session it replaces.
NewConnectionState_torn(c) ==
  [ uri |-> calls[c].uri, wsUri |-> calls[c].wsUri,
    moduleName |-> calls[c].moduleName, authToken |-> calls[c].authToken,
    connected |-> TRUE, identity |-> <<"identity", c>>,
    schema |-> IF connectionState = Null THEN calls[c].schema ELSE connectionState.schema,
    wsConnection |-> c, wsToken |-> <<"token", c>> ]

NewConnectionState(c) ==
  [ uri |-> calls[c].uri, wsUri |-> calls[c].wsUri,
    moduleName |-> calls[c].moduleName, authToken |-> calls[c].authToken,
    connected |-> TRUE, identity |-> <<"identity", c>>,
    schema |-> calls[c].schema, wsConnection |-> c, wsToken |-> <<"token", c>> ]

\* onConnect, lines 193-201, then connect lines 146-167: the handshake succeeds,
\* the promise resolves and connect stores the session.
connect_onConnect(c) ==
  /\ calls[c].op = "connect" /\ calls[c].pc = "connectWebSocket"
  /\ channels[c] = "connecting"
  /\ channels' = [channels EXCEPT ![c] = "open"]
  /\ connectionState' = NewConnectionState(c)
  /\ Finish(c, "connect", calls[c].io,
            Return([status |-> "connected", identity |-> <<"identity", c>>]))
  /\ UNCHANGED <<subscriptions, tableCache, nextCall, subRequests>>

\* onConnectError, lines 202-206, then connect lines 168-170.
connect_onConnectError(c) ==
  /\ calls[c].op = "connect" /\ calls[c].pc = "connectWebSocket"
  /\ channels[c] = "connecting"
  /\ channels' = [channels EXCEPT ![c] = "failed"]
  /\ Finish(c, "connect", calls[c].io,
            Throw(<<"Connection failed: ", "WebSocket connection failed: ", "refused">>))
  /\ UNCHANGED <<manager, nextCall, subRequests>>

\* A handler that marks the stored session as not connected when its channel
\* drops.
onDisconnect_marks(ch) ==
  /\ channels[ch] = "open"
  /\ channels' = [channels EXCEPT ![ch] = "closed"]
  /\ connectionState' =
       IF connectionState # Null /\ connectionState.wsConnection = ch
       THEN [connectionState EXCEPT !.connected = FALSE] ELSE connectionState
  /\ returned' = NoReturn
  /\ UNCHANGED <<subscriptions, tableCache, calls, nextCall, subRequests>>

\* onDisconnect, lines 207-214: the channel drops; the handler only logs.
onDisconnect(ch) ==
  /\ channels[ch] = "open"
  /\ channels' = [channels EXCEPT ![ch] = "closed"]
  /\ returned' = NoReturn
  /\ UNCHANGED <<manager, calls, nextCall, subRequests>>

\* -------------------------------------------------------------- disconnect
\* disconnect, lines 292-306. The body has no await: it runs in one step.
\* wsConnection.disconnect() closes the channel; an exception from it (only
\* possible on a channel that is no longer open) is caught and logged.
disconnect ==
  /\ LET ws == IF connectionState = Null THEN NoChannel ELSE connectionState.wsConnection
     IN  /\ channels' = IF ws # NoChannel THEN [channels EXCEPT ![ws] = "closed"] ELSE channels
         /\ Immediate("disconnect", IF ws # NoChannel THEN <<"ws close">> ELSE << >>,
                      Return(Undefined))
  /\ subscriptions' = EmptyMap
  /\ tableCache' = EmptyMap
  /\ connectionState' = Null
  /\ UNCHANGED subRequests

\* -------------------------------------------------------------- queryTable
\* The (tableName, filter, limit, offset) tuples queryTable is invoked with.
QueryArgs ==
  { << <<"user">>, JObj(<< <<<<"online">>, JBool(TRUE)>> >>), 10, 0 >>,
    << <<"msg">>, Undefined, 100, 0 >> }

\* One positional row, ["7", 1], in the first statement result.
OneRow == JArr(<< JObj(<< << <<"rows">>, JArr(<< JArr(<<JStr(<<"7">>), JNum(1)>>) >>) >> >>) >>)

\* What the SQL endpoint can answer.
SqlResponses ==
  { HttpOk([json |-> JArr(<< >>)]), HttpOk([json |-> OneRow]), HttpError, NetworkFailure }

\* The request queryTable builds from the session, lines 501-511.
sqlRequest(tableName, filter, limit, offset) ==
  [ url |-> connectionState.uri \o <<"/v1/database/">> \o connectionState.moduleName \o <<"/sql">>,
    authorization |-> IF Truthy(connectionState.authToken)
                      THEN <<"Bearer ">> \o connectionState.authToken.string ELSE << >>,
    body |-> buildQuery(tableName, filter, limit, offset) ]

\* A lookup that takes the first table of the schema whatever its name.
findTable_first(schema, tableName) ==
  IF schema.tables = << >> THEN Undefined ELSE schema.tables[1]

\* this.connectionState!.schema?.tables.find(t => t.name === tableName), line 533.
findTable(schema, tableName) ==
  LET hit == {i \in 1..Len(schema.tables) : schema.tables[i].name = tableName}
  IN  IF hit = {} THEN Undefined
      ELSE schema.tables[CHOOSE i \in hit : \A j \in hit : i <= j]

\* statementResult.rows || [], line 530; reading rows of null or undefined throws.
rawRowsOf(statementResult) ==
  IF IsNullish(statementResult) THEN TypeError
  ELSE IF ToBoolean(Prop(statementResult, <<"rows">>)) THEN Prop(statementResult, <<"rows">>)
  ELSE JArr(<< >>)

\* { table, rows, totalCount: rows.length }, lines 538-542.
rowsResult(tableName, rows) ==
  IF IsThrown(rows) THEN Throw(rows.thrown)
  ELSE Return([ table |-> tableName, rows |-> rows,
                totalCount |-> IF IsArr(rows) THEN JNum(Len(rows.array)) ELSE Undefined ])

\* lines 533-542: the rows decoded with the table's schema, or unchanged when
\* the schema has no such table.
decodeRows(tableName, rawRows, tableSchema) ==
  IF tableSchema = Undefined THEN rowsResult(tableName, rawRows)
  ELSE IF ~IsArr(rawRows) THEN Throw(TypeError.thrown)
  ELSE rowsResult(tableName, convertRows(rawRows.array, tableSchema))

\* lines 530-542, for the raw rows of the first statement result. The schema
\* is read from the session stored when the response arrives.
firstStatementRows(tableName, rawRows) ==
  IF IsThrown(rawRows) THEN Throw(rawRows.thrown)
  ELSE IF connectionState = Null THEN Throw(TypeError.thrown)
  ELSE decodeRows(tableName, rawRows, findTable(connectionState.schema, tableName))

\* queryTable, lines 528-549: the rows of a parsed response.
queryRows(tableName, result) ==
  IF IsArr(result) /\ Len(result.array) > 0
  THEN firstStatementRows(tableName, rawRowsOf(result.array[1]))
  ELSE Return([table |-> tableName, rows |-> JArr(<< >>), totalCount |-> JNum(0)])

\* queryTable, lines 550-553: an error is rethrown as "Query failed: ...".
queryFailed(r) == IF IsThrow(r) THEN Throw(<<"Query failed: ">> \o r.throw) ELSE r

\* queryTable answering a failed request with an empty row list.
queryTableResult_empty(tableName, resp) ==
  IF IsFailure(resp) \/ ~resp.ok \/ "json" \notin DOMAIN resp.body
  THEN Return([table |-> tableName, rows |-> JArr(<< >>), totalCount |-> JNum(0)])
  ELSE queryFailed(queryRows(tableName, resp.body.json))

\* queryTable, lines 513-553: what the call settles to when resp arrives.
queryTableResult(tableName, resp) ==
  queryFailed(IF IsFailure(resp) THEN Throw(resp.failure)
              ELSE IF ~resp.ok THEN Throw(<<"HTTP ", resp.status, ": ">> \o resp.body)
              ELSE IF "json" \notin DOMAIN resp.body THEN Throw(<<"Unexpected token in JSON">>)
              ELSE queryRows(tableName, resp.body.json))

\* queryTable without its connection check: the request is sent whatever the
\* manager holds.
queryTable_unchecked(c, tableName, filter, limit, offset) ==
  /\ FreshAsync(c)
  /\ Await(c, [ op |-> "queryTable", pc |-> "fetch", tableName |-> tableName,
                request |-> [body |-> buildQuery(tableName, filter, limit, offset)],
                io |-> <<"POST sql">> ])
  /\ UNCHANGED <<manager, channels, subRequests>>

\* queryTable, lines 468-518: the connection check, then the SQL request is sent.
queryTable(c, tableName, filter, limit, offset) ==
  /\ IF ~isConnected
     THEN Immediate("queryTable", << >>, Throw(NotConnectedError))
     ELSE /\ FreshAsync(c)
          /\ Await(c, [ op |-> "queryTable", pc |-> "fetch", tableName |-> tableName,
                        request |-> sqlRequest(tableName, filter, limit, offset),
                        io |-> <<"POST sql">> ])
  /\ UNCHANGED <<manager, channels, subRequests>>

\* queryTable, lines 520-553: the response arrives.
queryTable_fetch(c) ==
  /\ calls[c].op = "queryTable" /\ calls[c].pc = "fetch"
  /\ \E resp \in SqlResponses :
       Finish(c, "queryTable", calls[c].io, queryTableResult(calls[c].tableName, resp))
  /\ UNCHANGED <<manager, nextCall, channels, subRequests>>

\* ------------------------------------------------------------- callReducer
\* The (reducerName, args) pairs callReducer is invoked with.
ReducerArgs == { << <<"set_name">>, JArr(<<JStr(<<"a">>)>>) >> }

\* What the call endpoint can answer.
CallResponses ==
  { HttpOk([text |-> <<"done">>]), HttpOk([text |-> << >>]), HttpError, NetworkFailure }

\* callReducer without its catch: a failed call is raised to the caller.
callReducerResult_raises(reducerName, resp) ==
  IF IsFailure(resp) THEN Throw(resp.failure)
  ELSE IF ~resp.ok THEN Throw(<<"HTTP ", resp.status, ": ">> \o resp.body)
  ELSE Return([ reducer |-> reducerName, status |-> "success",
                message |-> IF resp.body.text # << >> THEN resp.body.text
                            ELSE <<"Reducer executed successfully">> ])

\* callReducer, lines 574-601: what the call settles to when resp arrives.
callReducerResult(reducerName, resp) ==
  IF IsFailure(resp)
    THEN Return([reducer |-> reducerName, status |-> "error", message |-> resp.failure])
  ELSE IF ~resp.ok
    THEN Return([ reducer |-> reducerName, status |-> "error",
                  message |-> <<"HTTP ", resp.status, ": ">> \o resp.body ])
  ELSE Return([ reducer |-> reducerName, status |-> "success",
                message |-> IF resp.body.text # << >> THEN resp.body.text
                            ELSE <<"Reducer executed successfully">> ])

\* callReducer, lines 559-581: the connection check, then the call request is sent.
callReducer(c, reducerName, args) ==
  /\ IF ~isConnected
     THEN Immediate("callReducer", << >>, Throw(NotConnectedError))
     ELSE /\ FreshAsync(c)
          /\ Await(c, [ op |-> "callReducer", pc |-> "fetch", reducerName |-> reducerName,
                        url |-> connectionState.uri \o <<"/v1/database/">>
                                  \o connectionState.moduleName \o <<"/call/">> \o reducerName,
                        io |-> <<"POST call">> ])
  /\ UNCHANGED <<manager, channels, subRequests>>

\* callReducer, lines 583-601: the response arrives.
callReducer_fetch(c) ==
  /\ calls[c].op = "callReducer" /\ calls[c].pc = "fetch"
  /\ \E resp \in CallResponses :
       Finish(c, "callReducer", calls[c].io, callReducerResult(calls[c].reducerName, resp))
  /\ UNCHANGED <<manager, nextCall, channels, subRequests>>

\* ---------------------------------------------------------- subscribeTable
\* The (tableName, filter) pairs subscribeTable is invoked with.
SubscribeArgs ==
  { << <<"user">>, JObj(<< <<<<"online">>, JBool(TRUE)>> >>) >>, << <<"msg">>, Undefined >> }

\* Map.prototype.set on a map held as a sequence of <<key, value>> pairs.
MapSet(m, k, v) ==
  IF \E i \in 1..Len(m) : m[i][1] = k
  THEN [i \in 1..Len(m) |-> IF m[i][1] = k THEN <<k, v>> ELSE m[i]]
  ELSE Append(m, <<k, v>>)

MapKeys(m) == [i \in 1..Len(m) |-> m[i][1]]

\* subscribeTable, lines 607-620: the connection check, the channel handle is
\* read from the session, then the snapshot query of queryTable is sent.
subscribeTable(c, tableName, filter) ==
  /\ IF ~isConnected
     THEN Immediate("subscribeTable", << >>, Throw(NotConnectedError))
     ELSE IF connectionState.wsConnection = NoChannel
     THEN Immediate("subscribeTable", << >>, Throw(<<"WebSocket connection not established">>))
     ELSE /\ FreshAsync(c)
          /\ Await(c, [ op |-> "subscribeTable", pc |-> "queryTable",
                        tableName |-> tableName, filter |-> filter,
                        wsConnection |-> connectionState.wsConnection,
                        request |-> sqlRequest(tableName, filter, 100, 0),
                        io |-> <<"POST sql">> ])
  /\ UNCHANGED <<manager, channels, subRequests>>

\* subscribeTable, lines 620-652: the snapshot arrives; on success the
\* subscription request is registered on the channel captured at the start.
\* Registering on a channel that is no longer open either throws or is never
\* answered.
subscribeTable_snapshot(c, r, sendThrows) ==
  IF IsThrow(r)
  THEN /\ ~sendThrows
       /\ Finish(c, "subscribeTable", calls[c].io, Throw(<<"Subscription failed: ">> \o r.throw))
       /\ UNCHANGED subRequests
  ELSE IF sendThrows
  THEN /\ channels[calls[c].wsConnection] # "open"
       /\ Finish(c, "subscribeTable", calls[c].io \o <<"ws subscribe">>,
                 Throw(<<"Subscription failed: ", "connection closed">>))
       /\ UNCHANGED subRequests
  ELSE /\ Await(c, [calls[c] EXCEPT !.pc = "subscribe", !.io = @ \o <<"ws subscribe">>]
                     @@ [rows |-> r.return.rows])
       /\ subRequests' = [subRequests EXCEPT ![c] = "pending"]

subscribeTable_queryTable(c) ==
  /\ calls[c].op = "subscribeTable" /\ calls[c].pc = "queryTable"
  /\ \E resp \in SqlResponses, sendThrows \in BOOLEAN :
       subscribeTable_snapshot(c, queryTableResult(calls[c].tableName, resp), sendThrows)
  /\ UNCHANGED <<manager, nextCall, channels>>

\* The remote applies a pending subscription of an open channel; the applied
\* message is then on its way to the client.
applySubscription(c) ==
  /\ calls[c].op = "subscribeTable"
  /\ subRequests[c] = "pending"
  /\ channels[calls[c].wsConnection] = "open"
  /\ subRequests' = [subRequests EXCEPT ![c] = "applied"]
  /\ returned' = NoReturn
  /\ UNCHANGED <<manager, calls, nextCall, channels>>

\* subscribeTable settling as soon as its request is registered, without
\* waiting for the applied message.
subscribeTable_onApplied_early(c) ==
  /\ calls[c].op = "subscribeTable" /\ calls[c].pc = "subscribe"
  /\ subRequests[c] = "pending"
  /\ subscriptions' =
       MapSet(subscriptions, calls[c].tableName,
              [ filter |-> calls[c].filter, active |-> TRUE,
                query |-> selectQuery(calls[c].tableName, calls[c].filter),
                initialCount |-> Len(calls[c].rows.array), request |-> c ])
  /\ Finish(c, "subscribeTable", calls[c].io,
            Return([table |-> calls[c].tableName, subscribed |-> TRUE,
                    initialData |-> calls[c].rows]))
  /\ UNCHANGED <<connectionState, tableCache, nextCall, channels, subRequests>>

\* onApplied, lines 640-645, then subscribeTable lines 654-667: the applied
\* message is delivered, the promise resolves and the registry entry is written.
\* (`request` is a history field: the invocation that wrote the entry.)
subscribeTable_onApplied(c) ==
  /\ calls[c].op = "subscribeTable" /\ calls[c].pc = "subscribe"
  /\ subRequests[c] = "applied"
  /\ subRequests' = [subRequests EXCEPT ![c] = "delivered"]
  /\ subscriptions' =
       MapSet(subscriptions, calls[c].tableName,
              [ filter |-> calls[c].filter, active |-> TRUE,
                query |-> selectQuery(calls[c].tableName, calls[c].filter),
                initialCount |-> Len(calls[c].rows.array), request |-> c ])
  /\ Finish(c, "subscribeTable", calls[c].io,
            Return([table |-> calls[c].tableName, subscribed |-> TRUE,
                    initialData |-> calls[c].rows]))
  /\ UNCHANGED <<connectionState, tableCache, nextCall, channels>>

\* A subscription error that still leaves an inactive entry in the registry.
subscribeTable_onError_registered(c) ==
  /\ calls[c].op = "subscribeTable" /\ calls[c].pc = "subscribe"
  /\ subRequests[c] = "pending"
  /\ subRequests' = [subRequests EXCEPT ![c] = "error"]
  /\ subscriptions' =
       MapSet(subscriptions, calls[c].tableName,
              [ filter |-> calls[c].filter, active |-> FALSE,
                query |-> selectQuery(calls[c].tableName, calls[c].filter),
                initialCount |-> Len(calls[c].rows.array), request |-> c ])
  /\ Finish(c, "subscribeTable", calls[c].io,
            Throw(<<"Subscription failed: ", "Subscription error">>))
  /\ UNCHANGED <<connectionState, tableCache, nextCall, channels>>

\* onError, lines 646-650, then subscribeTable lines 668-670.
subscribeTable_onError(c) ==
  /\ calls[c].op = "subscribeTable" /\ calls[c].pc = "subscribe"
  /\ subRequests[c] = "pending"
  /\ subRequests' = [subRequests EXCEPT ![c] = "error"]
  /\ Finish(c, "subscribeTable", calls[c].io,
            Throw(<<"Subscription failed: ", "Subscription error">>))
  /\ UNCHANGED <<manager, nextCall, channels>>

\* A report that gives the streaming form of the session's URI.
getConnectionInfo_wsUri ==
  /\ Immediate("getConnectionInfo", << >>,
            IF connectionState = Null
            THEN Return([ connected |-> FALSE,
                          message |-> <<"Not connected to any SpacetimeDB instance">> ])
            ELSE Return([ connected |-> connectionState.connected,
                          uri |-> connectionState.wsUri,
                          module |-> connectionState.moduleName,
                          authenticated |-> Truthy(connectionState.authToken),
                          activeSubscriptions |-> MapKeys(subscriptions) ]))
  /\ UNCHANGED <<manager, channels, subRequests>>

\* ------------------------------------------------------- getConnectionInfo
\* getConnectionInfo, lines 768-783. No await: it runs in one step.
getConnectionInfo ==
  /\ Immediate("getConnectionInfo", << >>,
            IF connectionState = Null
            THEN Return([ connected |-> FALSE,
                          message |-> <<"Not connected to any SpacetimeDB instance">> ])
            ELSE Return([ connected |-> connectionState.connected,
                          uri |-> connectionState.uri,
                          module |-> connectionState.moduleName,
                          authenticated |-> Truthy(connectionState.authToken),
                          activeSubscriptions |-> MapKeys(subscriptions) ]))
  /\ UNCHANGED <<manager, channels, subRequests>>

\* --------------------------------------------------------- process transport
\* executeCliCommand, lines 788-814: the promise resolves with the collected
\* stdout when the process closes with code 0 and rejects otherwise.
\* Text that is valid JSON is held as [json |-> its value], other text as
\* [text |-> its characters]: JSON.parse returns the value or throws.
CliExit(code, stdout, stderr) == [code |-> code, stdout |-> stdout, stderr |-> stderr]
CliSpawnError == [error |-> <<"spawn spacetime ENOENT">>]

\* A transport that hands over the collected output whatever the exit code.
executeCliCommandResult_lenient(ev) ==
  IF "error" \in DOMAIN ev THEN Throw(<<"Failed to execute CLI command: ">> \o ev.error)
  ELSE Return(ev.stdout)

executeCliCommandResult(ev) ==
  IF "error" \in DOMAIN ev THEN Throw(<<"Failed to execute CLI command: ">> \o ev.error)
  ELSE IF ev.code = 0 THEN Return(ev.stdout)
  ELSE Throw(<<"CLI command failed (exit code ">> \o NumText(ev.code) \o <<"): ">> \o ev.stderr)

IsJson(output) == "json" \in DOMAIN output

\* The describe document of a module with one table and one reducer.
DescribeDoc ==
  JObj(<< << <<"typespace">>, JNum(0) >>,
          << <<"tables">>, JArr(<< JObj(<< << <<"name">>, JStr(<<"user">>) >> >>) >>) >>,
          << <<"reducers">>,
             JArr(<< JObj(<< << <<"name">>, JStr(<<"set_name">>) >>,
                             << <<"lifecycle">>, Null >> >>) >>) >> >>)

\* What `spacetime describe --json` can end with.
DescribeEvents ==
  { CliExit(0, [json |-> DescribeDoc], << >>), CliExit(0, [json |-> JObj(<< >>)], << >>),
    CliExit(0, [text |-> <<"garbage">>], << >>), CliExit(1, [text |-> << >>], <<"no such module">>),
    CliSpawnError }

\* getMockTables, lines 1045-1050.
getMockTables ==
  JArr(<< JObj(<< << <<"name">>, JStr(<<"users">>) >>, << <<"rowCount">>, JNum(0) >> >>),
          JObj(<< << <<"name">>, JStr(<<"messages">>) >>, << <<"rowCount">>, JNum(0) >> >>) >>)

MockColumn(name, type) ==
  JObj(<< << <<"name">>, JStr(<<name>>) >>, << <<"type">>, JStr(<<type>>) >>,
          << <<"nullable">>, JBool(FALSE) >> >>)

\* getMockSchema, lines 1052-1085.
getMockSchema(tableName) ==
  JObj(<< << <<"database">>,
             IF connectionState # Null /\ connectionState.moduleName # << >>
             THEN JStr(connectionState.moduleName) ELSE JStr(<<"unknown">>) >>,
          << <<"tables">>,
             IF ToBoolean(tableName)
             THEN JArr(<< JObj(<< << <<"name">>, tableName >>,
                                  << <<"columns">>,
                                     JArr(<< MockColumn("id", "u64"),
                                             MockColumn("created_at", "timestamp") >>) >> >>) >>)
             ELSE JArr(<< JObj(<< << <<"name">>, JStr(<<"users">>) >>,
                                  << <<"columns">>,
                                     JArr(<< MockColumn("id", "u64"), MockColumn("name", "string"),
                                             MockColumn("online", "bool") >>) >> >>),
                          JObj(<< << <<"name">>, JStr(<<"messages">>) >>,
                                  << <<"columns">>,
                                     JArr(<< MockColumn("id", "u64"),
                                             MockColumn("sender", "identity"),
                                             MockColumn("text", "string"),
                                             MockColumn("timestamp", "timestamp") >>) >> >>) >>) >> >>)

MockReducerNames == << <<"init">>, <<"send_message">>, <<"set_name">>, <<"update_user">> >>

\* getMockReducers, lines 1087-1104.
getMockReducers(includeSignatures) ==
  JArr([i \in 1..Len(MockReducerNames) |->
         IF includeSignatures
         THEN JObj(<< << <<"name">>, JStr(MockReducerNames[i]) >>,
                      << <<"signature">>, JStr(<<"(...args: any[]) => void">>) >>,
                      << <<"description">>, JStr(<<"Reducer: ">> \o MockReducerNames[i]) >> >>)
         ELSE JObj(<< << <<"name">>, JStr(MockReducerNames[i]) >> >>)])

\* getTableSchema, lines 1021-1026.
getTableSchema ==
  JObj(<< << <<"columns">>, JArr(<< >>) >>, << <<"indexes">>, JArr(<< >>) >> >>)

\* v.name of a list element: reading a property of null or undefined throws.
nameOf(v) == IF IsNullish(v) THEN TypeError ELSE Prop(v, <<"name">>)

\* parseTablesFromDescribe, lines 828-845, then listTables lines 452-456.
tableInfo(table, includeSchema) ==
  IF IsNullish(table) THEN TypeError
  ELSE JObj(<< << <<"name">>, Prop(table, <<"name">>) >>, << <<"rowCount">>, Undefined >>,
               << <<"schema">>, IF includeSchema THEN getTableSchema ELSE table >> >>)

RECURSIVE tableInfos(_, _)
tableInfos(tables, includeSchema) ==
  IF tables = << >> THEN JArr(<< >>)
  ELSE prefixItem(tableInfo(tables[1], includeSchema), tableInfos(Tail(tables), includeSchema))

\* A mapped list, or the fallback when mapping threw inside the parser's try.
orElse(r, fallback) == IF IsThrown(r) THEN fallback ELSE r

\* The placeholder tables as the parser's try block hands them to listTables,
\* whose loop (lines 452-456) then sets table.schema when includeSchema is set.
parsedMockTables(includeSchema) ==
  IF includeSchema
  THEN JArr([i \in 1..Len(getMockTables.array) |->
              Set(getMockTables.array[i], <<"schema">>, getTableSchema)])
  ELSE getMockTables

parseTablesFromDescribe(output, includeSchema) ==
  IF ~IsJson(output) \/ IsNullish(output.json) THEN parsedMockTables(includeSchema)
  ELSE IF IsArr(Prop(output.json, <<"tables">>))
    THEN orElse(tableInfos(Prop(output.json, <<"tables">>).array, includeSchema),
                parsedMockTables(includeSchema))
  ELSE parsedMockTables(includeSchema)

\* listTables, lines 438-462, for the outcome r of executeCliCommand.
listTablesResult(r, includeSchema) ==
  IF IsThrow(r) THEN Return(getMockTables)
  ELSE Return(parseTablesFromDescribe(r.return, includeSchema))

\* Array.prototype.find(t => t.name === tableName) over a JSON list.
findNamed(list, name) ==
  LET hit == {i \in 1..Len(list) : ~IsNullish(list[i]) /\ Prop(list[i], <<"name">>) = name}
  IN  IF hit = {} THEN Undefined ELSE list[CHOOSE i \in hit : \A j \in hit : i <= j]

\* x || [] for a property of the describe document.
orEmptyList(x) == IF ToBoolean(x) THEN x ELSE JArr(<< >>)

moduleNameValue == IF connectionState = Null THEN Undefined ELSE JStr(connectionState.moduleName)

\* parseSchemaFromDescribe, lines 924-951.
parseSchemaFromDescribe(output, tableName) ==
  IF ~IsJson(output) \/ IsNullish(output.json) THEN getMockSchema(tableName)
  ELSE LET schema == output.json
           tables == Prop(schema, <<"tables">>)
           found == IF ToBoolean(tableName) /\ IsArr(tables)
                    THEN findNamed(tables.array, tableName) ELSE Undefined
       IN  IF found # Undefined
           THEN JObj(<< << <<"database">>, moduleNameValue >>,
                        << <<"typespace">>, Prop(schema, <<"typespace">>) >>,
                        << <<"tables">>, JArr(<<found>>) >> >>)
           ELSE JObj(<< << <<"database">>, moduleNameValue >>,
                        << <<"typespace">>, Prop(schema, <<"typespace">>) >>,
                        << <<"tables">>, orEmptyList(tables) >>,
                        << <<"reducers">>, orEmptyList(Prop(schema, <<"reducers">>)) >> >>)

\* getSchema, lines 679-692.
getSchemaResult(r, tableName) ==
  IF IsThrow(r) THEN Return(getMockSchema(tableName))
  ELSE Return(parseSchemaFromDescribe(r.return, tableName))

RECURSIVE paramNames(_, _)
\* formatReducerSignature, lines 991-996: param.name || `arg${index}`, joined.
paramNames(params, index) ==
  IF index >= Len(params) THEN << >>
  ELSE (IF ToBoolean(Prop(params[index + 1], <<"name">>))
        THEN ToText(Prop(params[index + 1], <<"name">>)) ELSE <<"arg">> \o NumText(index))
       \o (IF index + 1 < Len(params) THEN <<", ">> ELSE << >>)
       \o paramNames(params, index + 1)

\* formatReducerSignature, lines 986-999.
formatReducerSignature(reducer) ==
  IF IsArr(Prop(Prop(reducer, <<"params">>), <<"elements">>))
  THEN JStr(<<"(">> \o paramNames(Prop(Prop(reducer, <<"params">>), <<"elements">>).array, 0)
              \o <<") => void">>)
  ELSE JStr(<<"() => void">>)

\* parseReducersFromDescribe, lines 961-973: one reducer of the list.
reducerInfo(reducer, includeSignatures) ==
  IF IsNullish(reducer) THEN TypeError
  ELSE IF includeSignatures /\ ToBoolean(Prop(Prop(reducer, <<"params">>), <<"elements">>))
    THEN JObj(<< << <<"name">>, Prop(reducer, <<"name">>) >>,
                 << <<"lifecycle">>, Prop(reducer, <<"lifecycle">>) >>,
                 << <<"params">>, Prop(Prop(reducer, <<"params">>), <<"elements">>) >>,
                 << <<"signature">>, formatReducerSignature(reducer) >> >>)
  ELSE JObj(<< << <<"name">>, Prop(reducer, <<"name">>) >>,
               << <<"lifecycle">>, Prop(reducer, <<"lifecycle">>) >> >>)

RECURSIVE reducerInfos(_, _)
reducerInfos(reducers, includeSignatures) ==
  IF reducers = << >> THEN JArr(<< >>)
  ELSE prefixItem(reducerInfo(reducers[1], includeSignatures),
                  reducerInfos(Tail(reducers), includeSignatures))

\* parseReducersFromDescribe, lines 956-981.
parseReducersFromDescribe(output, includeSignatures) ==
  IF ~IsJson(output) \/ IsNullish(output.json) THEN getMockReducers(includeSignatures)
  ELSE IF IsArr(Prop(output.json, <<"reducers">>))
    THEN orElse(reducerInfos(Prop(output.json, <<"reducers">>).array, includeSignatures),
                getMockReducers(includeSignatures))
  ELSE getMockReducers(includeSignatures)

\* listReducers without its catch: a failed process is raised to the caller.
listReducersResult_raises(r, includeSignatures) ==
  IF IsThrow(r) THEN r
  ELSE Return(parseReducersFromDescribe(r.return, includeSignatures))

\* listReducers, lines 701-714.
listReducersResult(r, includeSignatures) ==
  IF IsThrow(r) THEN Return(getMockReducers(includeSignatures))
  ELSE Return(parseReducersFromDescribe(r.return, includeSignatures))

\* The text of a CLI output (valid JSON text is opaque here).
outputText(output) == IF IsJson(output) THEN <<"<json>">> ELSE output.text

\* A fragment that stands for a run of at least 40 hexadecimal digits.
HexRuns == {"c200a1b2c3d4e5f60718293a4b5c6d7e8f901234"}

\* line.match(/([a-f0-9]{40,})/i), line 1009: the first run of a line, if any.
lineIdentity(line) == SelectSeq(line, LAMBDA tok : tok \in HexRuns)

RECURSIVE lineIdentities(_)
lineIdentities(lines) ==
  IF lines = << >> THEN << >>
  ELSE (IF lineIdentity(lines[1]) # << >> THEN <<lineIdentity(lines[1])[1]>> ELSE << >>)
       \o lineIdentities(Tail(lines))

\* parseIdentities, lines 1004-1016.
parseIdentities(text) == lineIdentities(Split(text, "\n"))

\* What `spacetime identity list` can end with.
IdentityEvents ==
  { CliExit(0, [text |-> <<"DEFAULT ", "c200a1b2c3d4e5f60718293a4b5c6d7e8f901234", "\n">>], << >>),
    CliExit(0, [text |-> <<"No identities">>], << >>),
    CliExit(1, [text |-> << >>], <<"error">>), CliSpawnError }

\* getIdentity, lines 723-736, the session read when the process has ended.
getIdentityResult(r) ==
  IF IsThrow(r) THEN Return([identity |-> <<"anonymous">>, authenticated |-> FALSE])
  ELSE Return([ identity |-> IF parseIdentities(outputText(r.return)) # << >>
                             THEN <<parseIdentities(outputText(r.return))[1]>>
                             ELSE <<"anonymous">>,
                authenticated |-> connectionState # Null /\ Truthy(connectionState.authToken) ])

\* ------------------------------------------------------------ result parser
\* /^-?\d+$/ and /^-?\d+\.\d+$/ of the number test, line 901.
unsignedPart(v) == IF v # << >> /\ v[1] = "-" THEN Tail(v) ELSE v
IsIntegerNumeral(v) == unsignedPart(v) # << >> /\ DigitPrefix(unsignedPart(v)) = unsignedPart(v)
IsDecimalNumeral(v) ==
  LET parts == Split(unsignedPart(v), ".")
  IN  /\ Len(parts) = 2
      /\ parts[1] # << >> /\ DigitPrefix(parts[1]) = parts[1]
      /\ parts[2] # << >> /\ DigitPrefix(parts[2]) = parts[2]

\* parseSqlResult, lines 894-909: the value of one cell; a missing or empty
\* cell is null. A numeral with a fraction is held as [decimal |-> its text].
cellValue(values, index) ==
  IF index > Len(values) \/ values[index] = << >> THEN Null
  ELSE LET value == values[index] IN
    IF value[1] = "\"" /\ value[Len(value)] = "\""
      THEN JStr(SubSeq(value, 2, Len(value) - 1))
    ELSE IF IsIntegerNumeral(value) THEN parseFloat(value)
    ELSE IF IsDecimalNumeral(value) THEN [decimal |-> value]
    ELSE IF value = <<"t", "r", "u", "e">> THEN JBool(TRUE)
    ELSE IF value = <<"f", "a", "l", "s", "e">> THEN JBool(FALSE)
    ELSE JStr(value)

trimAll(parts) == [i \in 1..Len(parts) |-> Trim(parts[i])]

RECURSIVE rowOf(_, _, _, _)
\* A row that holds only the headers its line has a cell for.
rowOf_present(headers, values, index, row) ==
  IF index > Len(headers) \/ index > Len(values) THEN row
  ELSE rowOf(headers, values, index + 1, Set(row, headers[index], cellValue(values, index)))

\* headers.forEach((header, index) => row[header] = value), lines 893-912.
rowOf(headers, values, index, row) ==
  IF index > Len(headers) THEN row
  ELSE rowOf(headers, values, index + 1, Set(row, headers[index], cellValue(values, index)))

\* lines 886-889: the trimmed cells of a line, at most one per header.
valuesOf(line, headers) ==
  LET all == trimAll(Split(line, "|"))
  IN  SubSeq(all, 1, IF Len(all) < Len(headers) THEN Len(all) ELSE Len(headers))

RECURSIVE dataRows(_, _, _)
\* lines 882-915: the rows of lines i, i+1, ...; blank lines are skipped.
dataRows(lines, i, headers) ==
  IF i > Len(lines) THEN << >>
  ELSE (IF Trim(lines[i]) = << >> THEN << >>
        ELSE <<rowOf(headers, valuesOf(Trim(lines[i]), headers), 1, JObj(<< >>))>>)
       \o dataRows(lines, i + 1, headers)

\* lines 869-872: the non-empty trimmed column headers of the first line.
headersOf(line) == SelectSeq(trimAll(Split(line, "|")), LAMBDA h : h # << >>)

\* A table parser that reads the second line as data.
parseTable_noSeparator(lines) ==
  IF Len(lines) < 2 THEN JArr(<< >>)
  ELSE IF headersOf(lines[1]) = << >> THEN JArr(<< >>)
  ELSE JArr(dataRows(lines, 2, headersOf(lines[1])))

\* parseSqlResult, lines 861-918, for text that is not JSON.
parseTable(lines) ==
  IF Len(lines) < 2 THEN JArr(<< >>)
  ELSE IF headersOf(lines[1]) = << >> THEN JArr(<< >>)
  ELSE JArr(dataRows(lines, 3, headersOf(lines[1])))

\* parseSqlResult, lines 855-919.
parseSqlResult(output) ==
  IF IsJson(output)
  THEN IF IsArr(output.json) THEN output.json ELSE JArr(<<output.json>>)
  ELSE parseTable(Split(Trim(output.text), "\n"))

\* id | name / ---+--- / 1 | "Bob"
BobTable ==
  << "i", "d", " ", "|", " ", "n", "a", "m", "e", "\n", "-", "+", "-", "\n",
     "1", " ", "|", " ", "\"", "B", "o", "b", "\"", "\n" >>

\* What `spacetime sql` can end with.
SqlEvents ==
  { CliExit(0, [text |-> BobTable], << >>), CliExit(0, [text |-> <<"o", "k">>], << >>),
    CliExit(1, [text |-> << >>], <<"parse error">>), CliSpawnError }

\* executeSQL, lines 745-762.
executeSQLResult(r) ==
  IF IsThrow(r) THEN Throw(<<"SQL execution failed: ">> \o r.throw)
  ELSE Return([ rows |-> parseSqlResult(r.return),
                rowCount |-> Len(parseSqlResult(r.return).array) ])

\* ------------------------------------------------- operations over the CLI
\* The connection check shared by the CLI operations, then the spawn.
spawnCli(c, op, arg) ==
  IF ~isConnected
  THEN Immediate(op, << >>, Throw(NotConnectedError))
  ELSE /\ FreshAsync(c)
       /\ Await(c, [op |-> op, pc |-> "executeCliCommand", arg |-> arg, io |-> <<"spawn">>])

\* The process ends: the operation settles to `outcome`.
endCli(c, op, outcome) ==
  /\ Finish(c, op, calls[c].io, outcome)
  /\ UNCHANGED <<manager, nextCall, channels, subRequests>>

AwaitsCli(c, op) == calls[c].op = op /\ calls[c].pc = "executeCliCommand"

\* listTables, lines 435-463.
listTables(c, includeSchema) ==
  /\ spawnCli(c, "listTables", JBool(includeSchema))
  /\ UNCHANGED <<manager, channels, subRequests>>

listTables_executeCliCommand(c) ==
  /\ AwaitsCli(c, "listTables")
  /\ \E ev \in DescribeEvents :
       endCli(c, "listTables",
              listTablesResult(executeCliCommandResult(ev), calls[c].arg.boolean))

\* getSchema asking the schema endpoint again instead of the CLI.
getSchema_refetch(c, tableName) ==
  /\ IF ~isConnected
     THEN Immediate("getSchema", << >>, Throw(NotConnectedError))
     ELSE /\ FreshAsync(c)
          /\ Await(c, [ op |-> "getSchema", pc |-> "executeCliCommand", arg |-> tableName,
                        io |-> <<"GET schema">> ])
  /\ UNCHANGED <<manager, channels, subRequests>>

\* getSchema, lines 676-693.
getSchema(c, tableName) ==
  /\ spawnCli(c, "getSchema", tableName)
  /\ UNCHANGED <<manager, channels, subRequests>>

getSchema_executeCliCommand(c) ==
  /\ AwaitsCli(c, "getSchema")
  /\ \E ev \in DescribeEvents :
       endCli(c, "getSchema", getSchemaResult(executeCliCommandResult(ev), calls[c].arg))

\* listReducers, lines 698-715.
listReducers(c, includeSignatures) ==
  /\ spawnCli(c, "listReducers", JBool(includeSignatures))
  /\ UNCHANGED <<manager, channels, subRequests>>

listReducers_executeCliCommand(c) ==
  /\ AwaitsCli(c, "listReducers")
  /\ \E ev \in DescribeEvents :
       endCli(c, "listReducers",
              listReducersResult(executeCliCommandResult(ev), calls[c].arg.boolean))

\* getIdentity, lines 720-737.
getIdentity(c) ==
  /\ spawnCli(c, "getIdentity", Undefined)
  /\ UNCHANGED <<manager, channels, subRequests>>

getIdentity_executeCliCommand(c) ==
  /\ AwaitsCli(c, "getIdentity")
  /\ \E ev \in IdentityEvents :
       endCli(c, "getIdentity", getIdentityResult(executeCliCommandResult(ev)))

\* executeSQL, lines 742-763.
executeSQL(c, query) ==
  /\ spawnCli(c, "executeSQL", JStr(query))
  /\ UNCHANGED <<manager, channels, subRequests>>

executeSQL_executeCliCommand(c) ==
  /\ AwaitsCli(c, "executeSQL")
  /\ \E ev \in SqlEvents :
       endCli(c, "executeSQL", executeSQLResult(executeCliCommandResult(ev)))

Next ==
  \/ \E a \in ConnectArgs : connect(NewCall, a[1], a[2], a[3])
  \/ \E c \in CallIds : connect_fetchSchema(c)
  \/ \E c \in CallIds : connect_onConnect(c)
  \/ \E c \in CallIds : connect_onConnectError(c)
  \/ \E ch \in CallIds : onDisconnect(ch)
  \/ disconnect
  \/ \E a \in QueryArgs : queryTable(NewCall, a[1], a[2], a[3], a[4])
  \/ \E c \in CallIds : queryTable_fetch(c)
  \/ \E a \in ReducerArgs : callReducer(NewCall, a[1], a[2])
  \/ \E c \in CallIds : callReducer_fetch(c)
  \/ \E a \in SubscribeArgs : subscribeTable(NewCall, a[1], a[2])
  \/ \E c \in CallIds : subscribeTable_queryTable(c)
  \/ \E c \in CallIds : applySubscription(c)
  \/ \E c \in CallIds : subscribeTable_onApplied(c)
  \/ \E c \in CallIds : subscribeTable_onError(c)
  \/ getConnectionInfo
  \/ \E includeSchema \in BOOLEAN : listTables(NewCall, includeSchema)
  \/ \E c \in CallIds : listTables_executeCliCommand(c)
  \/ \E tableName \in {Undefined, JStr(<<"user">>)} : getSchema(NewCall, tableName)
  \/ \E c \in CallIds : getSchema_executeCliCommand(c)
  \/ \E includeSignatures \in BOOLEAN : listReducers(NewCall, includeSignatures)
  \/ \E c \in CallIds : listReducers_executeCliCommand(c)
  \/ getIdentity(NewCall)
  \/ \E c \in CallIds : getIdentity_executeCliCommand(c)
  \/ executeSQL(NewCall, <<"SELECT 1">>)
  \/ \E c \in CallIds : executeSQL_executeCliCommand(c)

Spec == Init /\ [][Next]_vars

\* ------------------------------------------------------------ properties
\* Steps of a behaviour, by what the caller of an operation sees.
\* An invocation of op reaches an await point (it has sent a request).
Started(op) == nextCall' = nextCall + 1 /\ calls'[nextCall'].op = op

\* An invocation of op settles without having awaited.
SettledAtOnce(op) == calls' = calls /\ returned' # NoReturn /\ returned'.op = op

\* The awaiting invocation c of op settles.
Settled(c, op) == calls[c].op = op /\ calls'[c] = Idle

\* The operations that begin with ensureConnected().
GuardedOps ==
  { "listTables", "queryTable", "callReducer", "subscribeTable", "getSchema",
    "listReducers", "getIdentity", "executeSQL" }

\* What invoking op gives at once on a manager that is not connected.
FailsFast(op) ==
  /\ ~Started(op)
  /\ SettledAtOnce(op) =>
       /\ returned' = Completion(op, << >>, Throw(NotConnectedError))
       /\ channels' = channels /\ subRequests' = subRequests

\* C1, as stated: each of the eight guarded operations and getConnectionInfo,
\* invoked while the manager holds no connected session, fails with the
\* not-connected error and sends no HTTP request, spawns no process and makes
\* no streaming-channel call.
C1_AllNineFailFast ==
  [][ ~isConnected => \A op \in GuardedOps \cup {"getConnectionInfo"} : FailsFast(op) ]_vars

\* C1, amended: the eight guarded operations fail fast with the not-connected
\* error and no I/O; getConnectionInfo does no I/O either but does not fail:
\* it returns connected = false with a message.
C1_GuardedOpsFailFast ==
  [][ ~isConnected =>
        /\ \A op \in GuardedOps : FailsFast(op)
        /\ ~Started("getConnectionInfo")
        /\ SettledAtOnce("getConnectionInfo") =>
             /\ returned'.io = << >>
             /\ IsReturn(returned'.outcome)
             /\ returned'.outcome.return.connected = FALSE
             /\ channels' = channels /\ subRequests' = subRequests ]_vars

\* A session was opened and closed, then subscribeTable was refused.
C1_Witness ==
  /\ ~isConnected
  /\ \E ch \in CallIds : channels[ch] = "closed"
  /\ returned = Completion("subscribeTable", << >>, Throw(NotConnectedError))

NoRepeat(io) == \A i, j \in 1..Len(io) : i # j => io[i] # io[j]

\* C2: when connect hands an error to its caller the manager is disconnected,
\* whatever it held when connect was invoked, and no step of that connect was
\* attempted twice.
C2_FailedConnectDisconnects ==
  (returned # NoReturn /\ returned.op = "connect" /\ IsThrow(returned.outcome))
    => (~isConnected /\ NoRepeat(returned.io))

\* C3: at most one streaming channel opened by the manager is open.
C3_AtMostOneOpenChannel == Cardinality({ch \in CallIds : channels[ch] = "open"}) <= 1

\* C4: disconnect completes without error; from the connected state it closes
\* the session's channel and leaves no session and an empty registry; from the
\* disconnected state it changes nothing.
C4_DisconnectIdempotent ==
  [][ SettledAtOnce("disconnect") =>
        /\ returned'.outcome = Return(Undefined)
        /\ connectionState' = Null /\ subscriptions' = EmptyMap
        /\ isConnected => channels'[connectionState.wsConnection] = "closed"
        /\ ~isConnected => manager' = manager /\ channels' = channels ]_vars

\* C5: whenever the manager is disconnected the subscription registry is empty.
C5_NoSubscriptionWhenDisconnected == ~isConnected => subscriptions = EmptyMap

\* C6: whenever isConnected() is true the session's streaming channel is open.
C6_ConnectedMeansChannelOpen ==
  isConnected => channels[connectionState.wsConnection] = "open"

\* The requests an invocation has sent include req.
Sent(io, req) == \E i \in 1..Len(io) : io[i] = req

\* Only connect asks the schema endpoint.
OnlyConnectFetchesSchema ==
  /\ \A c \in InFlight : Sent(calls[c].io, "GET schema") => calls[c].op = "connect"
  /\ returned # NoReturn /\ Sent(returned.io, "GET schema") => returned.op = "connect"

\* C7: the session, and with it the cached schema, changes only when a connect
\* settles or disconnect runs, and no operation other than connect sends a
\* request to the schema endpoint.
C7_SchemaFixedForSession ==
  /\ []OnlyConnectFetchesSchema
  /\ [][ connectionState' # connectionState =>
           \/ SettledAtOnce("disconnect") /\ connectionState' = Null
           \/ \E c \in CallIds : Settled(c, "connect") ]_vars

\* A query has been answered under the schema connect cached.
C7_Witness ==
  /\ isConnected /\ connectionState.schema = SchemaOf(connectionState.moduleName)
  /\ returned # NoReturn /\ returned.op = "queryTable" /\ IsReturn(returned.outcome)

\* What callReducer gives for the response resp.
ReportsOutcome(r, resp) ==
  /\ IsReturn(r)
  /\ IF IsFailure(resp)
       THEN r.return.status = "error" /\ r.return.message = resp.failure
     ELSE IF resp.ok THEN r.return.status = "success"
     ELSE /\ r.return.status = "error"
          /\ r.return.message = <<"HTTP ", resp.status, ": ">> \o resp.body

\* A returned value that reports an error.
ReportsError(o) ==
  IsReturn(o) /\ "status" \in DOMAIN o.return /\ o.return.status = "error"

\* C8: callReducer invoked while connected never raises: whatever the response,
\* it returns status "success" for a 2xx and status "error" with the HTTP
\* status and body, or the failure text, otherwise; no other operation returns
\* a value reporting an error.
C8_CallReducerReportsFailure ==
  /\ \A c \in InFlight : calls[c].op = "callReducer" =>
        \A resp \in CallResponses :
          ReportsOutcome(callReducerResult(calls[c].reducerName, resp), resp)
  /\ returned # NoReturn =>
        /\ (returned.op = "callReducer" /\ IsThrow(returned.outcome)) => returned.io = << >>
        /\ ReportsError(returned.outcome) => returned.op = "callReducer"

\* A call answered with HTTP 500 has returned an error status.
C8_Witness ==
  /\ returned # NoReturn /\ returned.op = "callReducer" /\ returned.io = <<"POST call">>
  /\ ReportsError(returned.outcome)
  /\ returned.outcome.return.message = <<"HTTP ", "500", ": ", "boom">>

\* What queryTable raises for a failed request.
RaisesFailure(tableName) ==
  /\ queryTableResult(tableName, HttpError)
       = Throw(<<"Query failed: ", "HTTP ", HttpError.status, ": ">> \o HttpError.body)
  /\ queryTableResult(tableName, NetworkFailure)
       = Throw(<<"Query failed: ">> \o NetworkFailure.failure)

\* C9: a queryTable invocation sends one request to the SQL endpoint; a non-2xx
\* response or a network failure is raised with the status and body; and no
\* step of queryTable changes the session, the registry or a channel.
C9_QueryTableRaisesFailure ==
  /\ [](\A c \in InFlight : calls[c].op = "queryTable" =>
           calls[c].io = <<"POST sql">> /\ RaisesFailure(calls[c].tableName))
  /\ [](returned # NoReturn /\ returned.op = "queryTable" =>
           \/ returned.io = <<"POST sql">>
           \/ returned = Completion("queryTable", << >>, Throw(NotConnectedError)))
  /\ [][ (Started("queryTable") \/ \E c \in CallIds : Settled(c, "queryTable"))
           => manager' = manager /\ channels' = channels /\ subRequests' = subRequests ]_vars

\* A query answered with HTTP 500 was raised, and the session is still there.
C9_Witness ==
  /\ isConnected
  /\ returned = Completion("queryTable", <<"POST sql">>,
                            Throw(<<"Query failed: ", "HTTP ", "500", ": ", "boom">>))

\* Every registry entry was written for a request whose applied message was
\* delivered.
EntriesApplied ==
  \A i \in 1..Len(subscriptions) : subRequests[subscriptions[i][2].request] = "delivered"

\* C10: subscribeTable returns subscribed = true and writes its registry entry
\* only in the step that delivers the applied message of its request, so no
\* entry belongs to a request that has not been applied.
C10_RegistryOnlyAfterApplied ==
  /\ []EntriesApplied
  /\ [][ \A c \in CallIds :
           /\ (subRequests'[c] = "delivered" /\ subRequests[c] # "delivered")
                => subRequests[c] = "applied"
           /\ (Settled(c, "subscribeTable") /\ IsReturn(returned'.outcome))
                => /\ subRequests[c] = "applied" /\ subRequests'[c] = "delivered"
                   /\ returned'.outcome.return.subscribed = TRUE
           /\ subscriptions' # subscriptions /\ subscriptions' # EmptyMap
                => \E d \in CallIds : Settled(d, "subscribeTable") /\ subRequests[d] = "applied"
         ]_vars

\* A subscription was applied and its entry is in the registry.
C10_Witness ==
  /\ subscriptions # EmptyMap
  /\ returned # NoReturn /\ returned.op = "subscribeTable" /\ IsReturn(returned.outcome)
  /\ returned.outcome.return.subscribed = TRUE

\* ------------------------------------------- the pure functions, in isolation
\* The specifications below apply one function of the manager to inputs drawn
\* from bounded sets, on a manager that does nothing else. `returned` holds the
\* input, then the input with the result the code computes for it.
Given(fn, args) == [fn |-> fn, args |-> args]
Applied(fn, args, result) == [fn |-> fn, args |-> args, result |-> result]
IsApplied(fn) == returned.fn = fn /\ "result" \in DOMAIN returned

NoActivity ==
  /\ connectionState = Null /\ subscriptions = EmptyMap /\ tableCache = EmptyMap
  /\ calls = [c \in CallIds |-> Idle] /\ nextCall = 0
  /\ channels = [c \in CallIds |-> "none"] /\ subRequests = [c \in CallIds |-> "none"]

Still == UNCHANGED <<manager, calls, nextCall, channels, subRequests>>

\* ---------------------------------------------------------- URI normalizer
\* Length of the part of a URI after its scheme, in tokens.
MaxRest == 2

RestTokens == {"h", ":3000", "/p", "ws://"}
Rests == UNION {[1..n -> RestTokens] : n \in 0..MaxRest}
Schemes == {"wss://", "ws://", "https://", "http://"}
Uris == {<<sch>> \o x : sch \in Schemes, x \in Rests} \cup Rests

InitNormalize == NoActivity /\ returned \in {Given("normalizeUri", <<u>>) : u \in Uris}

normalize ==
  /\ returned.fn = "normalizeUri" /\ ~IsApplied("normalizeUri")
  /\ returned' = Applied("normalizeUri", returned.args, normalizeUri(returned.args[1]))
  /\ Still

SpecNormalize == InitNormalize /\ [][normalize]_vars

\* The part of a URI after its first token.
Remainder(uri) == SubSeq(uri, 2, Len(uri))

\* uri is scheme followed by x.
HasScheme(uri, sch) == uri # << >> /\ uri[1] = sch

\* C11: the normalizer is the fixed mapping wss://X -> (http://X, wss://X),
\* ws://X -> (http://X, ws://X), https://X -> (https://X, wss://X),
\* http://X -> (http://X, ws://X), with the same X in both outputs.
C11_FixedMapping ==
  IsApplied("normalizeUri") =>
    LET u == returned.args[1]
        X == Remainder(returned.args[1])
    IN  /\ HasScheme(u, "wss://") => returned.result = << <<"http://">> \o X, <<"wss://">> \o X >>
        /\ HasScheme(u, "ws://") => returned.result = << <<"http://">> \o X, <<"ws://">> \o X >>
        /\ HasScheme(u, "https://") => returned.result = << <<"https://">> \o X, <<"wss://">> \o X >>
        /\ HasScheme(u, "http://") => returned.result = << <<"http://">> \o X, <<"ws://">> \o X >>

\* wss://h:3000 has been normalized to (http://h:3000, wss://h:3000).
C11_Witness ==
  returned = Applied("normalizeUri", << <<"wss://", "h", ":3000">> >>,
                     << <<"http://", "h", ":3000">>, <<"wss://", "h", ":3000">> >>)

\* C12, as stated: with normalize(u) = (r, s), normalize(r) = (r, s) and
\* normalize(s) = (r, s).
C12_Idempotent ==
  IsApplied("normalizeUri") =>
    /\ normalizeUri(returned.result[1]) = returned.result
    /\ normalizeUri(returned.result[2]) = returned.result

\* C12, amended: with normalize(u) = (r, s), normalizing r gives r again as the
\* request form and normalizing s gives s again as the streaming form; the
\* other form may differ from the first pass in its scheme only, and for a
\* ws:// or http:// input u both passes give exactly (r, s).
C12_IdempotentUpToScheme ==
  IsApplied("normalizeUri") =>
    LET u == returned.args[1]
        r == returned.result[1]
        s == returned.result[2]
    IN  /\ normalizeUri(r)[1] = r
        /\ normalizeUri(s)[2] = s
        /\ Remainder(normalizeUri(r)[2]) = Remainder(s)
        /\ Remainder(normalizeUri(s)[1]) = Remainder(r)
        /\ (HasScheme(u, "ws://") \/ HasScheme(u, "http://")) =>
             normalizeUri(r) = returned.result /\ normalizeUri(s) = returned.result
        /\ HasScheme(u, "wss://") => normalizeUri(r) = <<r, <<"ws://">> \o Remainder(s)>>
        /\ HasScheme(u, "https://") => normalizeUri(s) = <<<<"http://">> \o Remainder(r), s>>

\* An https:// URI has been normalized: its streaming form maps back to http://.
C12_Witness ==
  /\ IsApplied("normalizeUri") /\ HasScheme(returned.args[1], "https://")
  /\ normalizeUri(returned.result[2])[1] # returned.result[1]

\* ------------------------------------------------------------ query builder
\* Number of entries of a filter.
MaxEntries == 2

FilterKeys == {<<"name">>, <<"online">>, <<"id">>}
FilterValues == {JStr(<<"A">>), JStr(<<"O", "'", "B">>), JBool(TRUE), JNum(7), Null}
\* The filters: undefined, or a mapping of distinct keys in insertion order.
EntryLists ==
  UNION { {e \in [1..n -> FilterKeys \X FilterValues] :
             \A i, j \in 1..n : i # j => e[i][1] # e[j][1]} : n \in 0..MaxEntries }
Filters == {Undefined} \cup {JObj(e) : e \in EntryLists}
Limits == {0, 10, 100}
Offsets == {-1, 0, 10}

InitBuild ==
  /\ NoActivity
  /\ returned \in {Given("buildQuery", <<t, f, l, o>>) :
                     t \in {<<"user">>, <<"msg">>}, f \in Filters, l \in Limits, o \in Offsets}

build ==
  /\ returned.fn = "buildQuery" /\ ~IsApplied("buildQuery")
  /\ returned' = Applied("buildQuery", returned.args,
                         buildQuery(returned.args[1], returned.args[2],
                                    returned.args[3], returned.args[4]))
  /\ Still

SpecBuild == InitBuild /\ [][build]_vars

\* The text with every single quote doubled.
Doubled(text) == [i \in 1..Len(text) |-> IF text[i] = "'" THEN "''" ELSE text[i]]

\* ` = ` and the literal of a scalar: single-quoted for text, bare otherwise.
EqualsLiteral(v) ==
  IF IsStr(v) THEN <<" = '">> \o Doubled(v.string) \o <<"'">>
  ELSE IF IsBool(v) THEN <<" = ", IF v.boolean THEN "true" ELSE "false">>
  ELSE IF IsNum(v) THEN <<" = ">> \o NumText(v.number)
  ELSE <<" = ", "null">>

\* The first n entries as `key = literal`, joined by ' AND '.
RECURSIVE Clauses(_, _)
Clauses(entries, n) ==
  IF n = 0 THEN << >>
  ELSE Clauses(entries, n - 1) \o (IF n > 1 THEN <<" AND ">> ELSE << >>)
         \o entries[n][1] \o EqualsLiteral(entries[n][2])

NonEmpty(filter) == filter # Undefined /\ filter.object # << >>

\* C13: the query text is SELECT * FROM <table>, then WHERE with the entries
\* in map order joined by AND exactly when the filter is non-empty (text
\* single-quoted with quotes doubled, other scalars bare), then LIMIT <limit>
\* always, then OFFSET <offset> exactly when offset > 0.
C13_QueryText ==
  IsApplied("buildQuery") =>
    returned.result =
      <<"SELECT * FROM ">> \o returned.args[1]
        \o (IF NonEmpty(returned.args[2])
            THEN <<" WHERE ">> \o Clauses(returned.args[2].object, Len(returned.args[2].object))
            ELSE << >>)
        \o <<" LIMIT ">> \o NumText(returned.args[3])
        \o (IF returned.args[4] > 0 THEN <<" OFFSET ">> \o NumText(returned.args[4]) ELSE << >>)

\* ("user", {online: true}, 10, 0) gave SELECT * FROM user WHERE online = true LIMIT 10.
C13_Witness ==
  returned = Applied("buildQuery",
                     << <<"user">>, JObj(<< << <<"online">>, JBool(TRUE) >> >>), 10, 0 >>,
                     <<"SELECT * FROM ", "user", " WHERE ", "online", " = ", "true",
                       " LIMIT ", "1", "0">>)

\* --------------------------------------------------- the decoder, applied
\* Type descriptors as the schema document carries them.
Ty(name) == [type |-> name]
ProductOf(elements) == [type |-> "Product", elements |-> elements]
ArrayOf(ty) == [type |-> "Array", element_ty |-> ty]
OptionOf(ty) == [type |-> "Option", some_ty |-> ty]

\* The un-nested variants: every integer and float width, Bool, String,
\* Timestamp and Identity.
UnnestedTypes ==
  {Ty(n) : n \in IntTypes \cup FloatTypes \cup {"Bool", "String", "Timestamp", "Identity"}}

\* Product types: named fields, a field without a name, a field whose type
\* descriptor is missing, two fields of one name, and no field list at all.
ProductTypes ==
  { ProductOf(<< [name |-> <<"a">>, ty |-> Ty("U32")], [name |-> <<"b">>, ty |-> Ty("String")] >>),
    ProductOf(<< [name |-> <<"a">>, ty |-> Ty("U32")], [ty |-> Ty("Bool")] >>),
    ProductOf(<< [ty |-> Ty("String")], [name |-> << >>, ty |-> Ty("Timestamp")] >>),
    ProductOf(<< [name |-> <<"a">>, ty |-> Ty("U32")], [name |-> <<"a">>, ty |-> Ty("U32")] >>),
    ProductOf(<< [name |-> <<"a">>], [name |-> <<"b">>, ty |-> Ty("U32")] >>),
    ProductOf(<< [name |-> <<"a">>, ty |-> ArrayOf(Ty("U32"))] >>),
    Ty("Product") }

\* Sum types: variants with payload types, a variant without a name, and no
\* variant list at all.
SumTypes ==
  { [type |-> "Sum", variants |-> << [name |-> <<"Red">>, ty |-> Ty("String")],
                                     [name |-> <<"Green">>, ty |-> Ty("U32")] >>],
    [type |-> "Sum", variants |-> << [name |-> <<"Red">>], [ty |-> Ty("U32")] >>],
    Ty("Sum") }

\* Array types, one of them without its element type.
ArrayTypes ==
  { ArrayOf(Ty("U32")), ArrayOf(Ty("String")), ArrayOf(Ty("Timestamp")),
    ArrayOf(ArrayOf(Ty("U32"))), ArrayOf(ProductOf(<< [name |-> <<"a">>] >>)), Ty("Array") }

\* Option types, one of them without its payload type.
OptionTypes ==
  { OptionOf(Ty("U32")), OptionOf(Ty("String")), OptionOf(Ty("Timestamp")),
    OptionOf(ArrayOf(Ty("U32"))), OptionOf(OptionOf(Ty("U32"))),
    OptionOf(ProductOf(<< [name |-> <<"a">>, ty |-> Ty("U32")] >>)), Ty("Option") }

\* A tag the decoder does not know.
OtherTypes == { Ty("Ref"), [kind |-> "none"] }

Types == UnnestedTypes \cup ProductTypes \cup SumTypes \cup ArrayTypes \cup OptionTypes \cup OtherTypes

\* Raw values as the wire carries them.
MaxItems == 2
Scalars ==
  { JNum(0), JNum(7), JNum(2500), JNum(-1500), JStr(<<"4", "2">>), JStr(<<"4", "2", "a">>),
    JStr(<<"a">>), JStr(<< >>), JBool(TRUE), JBool(FALSE) }
Items == { JNum(7), JNum(2500), JStr(<<"4", "2">>), Null }
Arrays == {JArr(a) : a \in UNION {[1..n -> Items] : n \in 0..MaxItems}}
Objects ==
  { JObj(<< >>),
    JObj(<< <<<<"some">>, JNum(7)>> >>),
    JObj(<< <<<<"some">>, Null>> >>),
    JObj(<< <<<<"some">>, JArr(<<JStr(<<"4", "2">>)>>)>> >>),
    JObj(<< <<<<"microseconds_since_epoch">>, JNum(2500)>> >>),
    JObj(<< <<<<"microseconds_since_epoch">>, JNum(-1500)>> >>),
    JObj(<< <<<<"__identity_bytes">>, JArr(<<JNum(10), JNum(255)>>)>> >>),
    JObj(<< <<<<"__identity_bytes">>, JArr(<<JNum(10), Null>>)>> >>),
    JObj(<< <<<<"tag">>, JNum(1)>>, <<<<"value">>, JNum(7)>> >>),
    JObj(<< <<<<"tag">>, JNum(5)>> >>),
    JObj(<< <<<<"tag">>, JNum(0)>>, <<<<"value">>, JObj(<< <<<<"some">>, JNum(7)>> >>)>> >>),
    JObj(<< <<<<"tag">>, JNum(1)>>, <<<<"value">>, JStr(<<"4", "2">>)>> >>),
    JObj(<< <<<<"a">>, JNum(7)>>, <<<<"b">>, JStr(<<"4", "2">>)>> >>),
    JObj(<< <<<<"a">>, JStr(<<"4", "2">>)>>, <<<<"field_", "1">>, JNum(0)>> >>),
    JObj(<< <<<<"a">>, JArr(<<JNum(7)>>)>> >>) }
Values == {Null, Undefined} \cup Scalars \cup Arrays \cup Objects

InitDecode ==
  NoActivity /\ returned \in {Given("convertValue", <<v, t>>) : v \in Values, t \in Types}

\* One call of convertValue(value, type).
decode ==
  /\ returned.fn = "convertValue"
  /\ ~IsApplied("convertValue")
  /\ returned' = Applied("convertValue", returned.args,
                         convertValue(returned.args[1], returned.args[2]))
  /\ Still

SpecDecode == InitDecode /\ [][decode]_vars

Decoded == IsApplied("convertValue")
RawValue == returned.args[1]
TypeGiven == returned.args[2]
TagOf(type) == IF "type" \in DOMAIN type THEN type.type ELSE ""

\* C14: the decoder is total: for every raw value and every type descriptor,
\* a product field or array element without its own type descriptor and an
\* unrecognized tag included, convertValue returns a value and never throws.
C14_DecoderTotal == Decoded => ~IsThrown(returned.result)

\* C15: for every type variant, decoding a null or an undefined raw value
\* yields null.
C15_NullDecodesToNull == (Decoded /\ RawValue \in {Null, Undefined}) => returned.result = Null
C15_Witness ==
  /\ Decoded /\ RawValue = Undefined /\ TagOf(TypeGiven) = "Timestamp"
  /\ returned.result = Null

\* C16: for every un-nested type T (integer and float widths, Bool, String,
\* Timestamp, Identity) and every value x the decoder returns for T, decoding
\* x again changes nothing: decode(decode(x, T), T) = decode(x, T).
C16_DecodeIdempotent ==
  (Decoded /\ TypeGiven \in UnnestedTypes /\ ~IsThrown(returned.result))
    => convertValue(returned.result, TypeGiven) = returned.result
C16_Witness ==
  /\ Decoded /\ TypeGiven = Ty("Timestamp")
  /\ RawValue = JNum(2500)
  /\ returned.result = JDate(2500)
  /\ convertValue(returned.result, TypeGiven) = JDate(2500)

\* The name the i-th field (from 1) of a product goes by: its declared name,
\* or field_<index> with the 0-based index when it declares none.
Declares(elem) == "name" \in DOMAIN elem /\ elem.name # << >>
NameOfField(elements, i) ==
  IF Declares(elements[i]) THEN elements[i].name ELSE <<"field_">> \o NumText(i - 1)

\* The raw value is the positional wire form of a value of the product type.
Positional(value, type) ==
  /\ TagOf(type) = "Product" /\ "elements" \in DOMAIN type
  /\ IsArr(value) /\ Len(value.array) = Len(type.elements)

\* A named wire form exists when fields of one name hold one value.
HasNamedForm(values, elements) ==
  \A i, j \in 1..Len(elements) :
    NameOfField(elements, i) = NameOfField(elements, j) => values[i] = values[j]

\* The named wire form: the object mapping each field name to the field value.
RECURSIVE NamedForm(_, _, _)
NamedForm(values, elements, n) ==
  IF n = 0 THEN JObj(<< >>)
  ELSE Set(NamedForm(values, elements, n - 1), NameOfField(elements, n), values[n])

\* The fields of a product read as the columns of a table.
IsRowSchema(elements) ==
  \A i \in 1..Len(elements) : Declares(elements[i]) /\ "ty" \in DOMAIN elements[i]

\* C17: for every product type (and every table row schema) the positional
\* wire form (an array of the field values in declared order) and the named
\* wire form (an object from field name to the same value) decode to the same
\* result, and a field that declares no name appears under field_<index>.
C17_WireFormsAgree ==
  (Decoded /\ Positional(RawValue, TypeGiven)
     /\ HasNamedForm(RawValue.array, TypeGiven.elements))
    => /\ convertValue(NamedForm(RawValue.array, TypeGiven.elements, Len(TypeGiven.elements)),
                       TypeGiven) = returned.result
       /\ ~IsThrown(returned.result)
            => \A i \in 1..Len(TypeGiven.elements) :
                 Has(returned.result, NameOfField(TypeGiven.elements, i))
       /\ IsRowSchema(TypeGiven.elements)
            => convertRowTypes(NamedForm(RawValue.array, TypeGiven.elements,
                                         Len(TypeGiven.elements)),
                               [columns |-> TypeGiven.elements])
               = convertRowTypes(RawValue, [columns |-> TypeGiven.elements])
C17_Witness ==
  /\ Decoded /\ Positional(RawValue, TypeGiven)
  /\ RawValue = JArr(<<JStr(<<"4", "2">>), JNum(7)>>)
  /\ ~Declares(TypeGiven.elements[2])
  /\ returned.result = JObj(<< <<<<"a">>, JNum(42)>>, <<<<"field_", "1">>, JBool(TRUE)>> >>)

\* The timestamp wire forms of a microsecond count: the bare integer, and the
\* object that wraps it in microseconds_since_epoch.
Wrapped(us) == JObj(<< <<<<"microseconds_since_epoch">>, us>> >>)

\* C18: the decoder for Timestamp divides the microsecond count by 1000 both
\* when the wire value is the bare integer and when it is the object with a
\* microseconds_since_epoch field, so the two wire forms of one value decode
\* to the same point in time.
C18_TimestampFormsAgree ==
  (Decoded /\ TypeGiven = Ty("Timestamp") /\ IsNum(RawValue))
    => /\ returned.result = JDate(DivTrunc(RawValue.number, 1000))
       /\ returned.result = convertValue(Wrapped(RawValue), TypeGiven)

\* The type is Array(T) for an element type T.
IsArrayOf(type) == TagOf(type) = "Array" /\ "element_ty" \in DOMAIN type

\* C19: the decoder for Array(T) distributes over the elements: the result
\* has the length of the raw array and its i-th element is the decoding of
\* the i-th raw element against T (an element that makes the decoder throw
\* makes the whole decoding throw); a raw value that is no array, decoded
\* against an array type, is returned unchanged (undefined as null).
C19_ArrayDistributes ==
  (Decoded /\ IsArrayOf(TypeGiven))
    => IF IsArr(RawValue)
       THEN IF \E i \in 1..Len(RawValue.array) :
                 IsThrown(convertValue(RawValue.array[i], TypeGiven.element_ty))
            THEN IsThrown(returned.result)
            ELSE /\ IsArr(returned.result)
                 /\ Len(returned.result.array) = Len(RawValue.array)
                 /\ \A i \in 1..Len(RawValue.array) :
                      returned.result.array[i]
                        = convertValue(RawValue.array[i], TypeGiven.element_ty)
       ELSE returned.result = (IF RawValue = Undefined THEN Null ELSE RawValue)
C19_Witness ==
  /\ Decoded /\ TypeGiven = ArrayOf(Ty("U32"))
  /\ RawValue = JArr(<<JStr(<<"4", "2">>), Null>>)
  /\ returned.result = JArr(<<JNum(42), Null>>)

\* The type is Option(T) for a payload type T.
IsOptionOf(type) == TagOf(type) = "Option" /\ "some_ty" \in DOMAIN type

\* The raw value is a wrapper: an object that carries a `some` field.
IsSomeWrapper(value) == IsPlainObj(value) /\ Has(value, <<"some">>)

\* C20: for every raw value x that is not null and every Option(T): when x is
\* an object with a `some` field the result is decode(x.some, T), otherwise
\* it is decode(x, T).
C20_OptionUnwraps ==
  (Decoded /\ IsOptionOf(TypeGiven) /\ ~IsNullish(RawValue))
    => returned.result
         = (IF IsSomeWrapper(RawValue)
            THEN convertValue(Get(RawValue, <<"some">>), TypeGiven.some_ty)
            ELSE convertValue(RawValue, TypeGiven.some_ty))

\* The raw value carries a tag.
Tagged(value) == IsPlainObj(value) /\ Has(value, <<"tag">>)

\* The variants a sum type declares.
VariantsOf(type) == IF "variants" \in DOMAIN type THEN type.variants ELSE << >>

\* The name of the n-th declared variant (from 0), or Variant<n> when the type
\* declares no such variant or the variant declares no name.
NameOfVariant(type, n) ==
  IF n >= 0 /\ n < Len(VariantsOf(type)) /\ Declares(VariantsOf(type)[n + 1])
  THEN VariantsOf(type)[n + 1].name
  ELSE <<"Variant">> \o NumText(n)

\* C21: Sum decoding: for a raw object that carries a tag the result is
\* {variant, value}, where variant is the name of the tag-th declared variant,
\* or the text Variant<tag> when no such variant or no name is declared, and
\* value is the raw inner value, not decoded against the variant's type; a
\* raw value without a tag is returned unchanged.
C21_SumDecoding ==
  (Decoded /\ TagOf(TypeGiven) = "Sum" /\ RawValue \notin {Null, Undefined})
    => IF Tagged(RawValue)
       THEN returned.result
              = JObj(<< << <<"variant">>,
                           JStr(NameOfVariant(TypeGiven, Get(RawValue, <<"tag">>).number)) >>,
                        << <<"value">>, Get(RawValue, <<"value">>) >> >>)
       ELSE returned.result = RawValue
C21_Witness ==
  /\ Decoded /\ TagOf(TypeGiven) = "Sum"
  /\ RawValue = JObj(<< <<<<"tag">>, JNum(1)>>, <<<<"value">>, JStr(<<"4", "2">>)>> >>)
  /\ returned.result = JObj(<< <<<<"variant">>, JStr(<<"Green">>)>>,
                               <<<<"value">>, JStr(<<"4", "2">>)>> >>)

\* ------------------------------------------------ row decoding, applied
\* Table schemas: the columns of a table, in declared order.
Column(name, ty) == [name |-> name, ty |-> ty]
RowSchemas ==
  { [columns |-> << Column(<<"id">>, Ty("U32")), Column(<<"online">>, Ty("Bool")) >>],
    [columns |-> << Column(<<"name">>, Ty("String")), Column(<<"id">>, Ty("U64")) >>],
    [columns |-> << Column(<<"id">>, Ty("String")) >>],
    [columns |-> << Column(<<"id">>, Ty("U32")), Column(<<"name">>, Ty("String")),
                    Column(<<"at">>, Ty("Timestamp")) >>],
    [columns |-> << Column(<<"who">>, Ty("Identity")), Column(<<"id">>, Ty("I32")) >>],
    [columns |-> << Column(<<"online">>, OptionOf(Ty("Bool"))),
                    Column(<<"name">>, ArrayOf(Ty("U32"))) >>],
    [columns |-> << >>] }

\* Raw rows: arrays of field values, and objects from field name to value.
MaxFields == 2
RowKeys == { <<"id">>, <<"name">>, <<"online">>, <<"extra">> }
RowEntries ==
  UNION { {e \in [1..n -> RowKeys \X Items] : \A i, j \in 1..n : e[i][1] = e[j][1] => i = j}
          : n \in 0..MaxFields }
RowObjects ==
  {JObj(e) : e \in RowEntries}
    \cup { JObj(<< <<<<"who">>, JObj(<< <<<<"__identity_bytes">>, JArr(<<JNum(10), Null>>)>> >>)>>,
                   <<<<"id">>, JNum(7)>> >>),
           JObj(<< <<<<"who">>, JObj(<< <<<<"__identity_bytes">>, JArr(<<JNum(10), JNum(255)>>)>> >>)>>,
                   <<<<"id">>, JNum(7)>> >>) }
Rows == Arrays \cup RowObjects

InitRow ==
  NoActivity /\ returned \in {Given("convertRowTypes", <<r, t>>) : r \in Rows, t \in RowSchemas}

\* One call of convertRowTypes(row, tableSchema).
decodeRow ==
  /\ returned.fn = "convertRowTypes"
  /\ ~IsApplied("convertRowTypes")
  /\ returned' = Applied("convertRowTypes", returned.args,
                         convertRowTypes(returned.args[1], returned.args[2]))
  /\ Still

SpecRow == InitRow /\ [][decodeRow]_vars

RowDecoded == IsApplied("convertRowTypes")
RawRow == returned.args[1]
ColumnsGiven == returned.args[2].columns

\* The raw value of the i-th column (from 1): by index from an array row, by
\* column name from an object row; undefined when the row does not hold it.
RawOfColumn(row, columns, i) ==
  IF IsArr(row)
  THEN (IF i <= Len(row.array) THEN row.array[i] ELSE Undefined)
  ELSE (IF Has(row, columns[i].name) THEN Get(row, columns[i].name) ELSE Undefined)

DecodedColumn(row, columns, i) == convertValue(RawOfColumn(row, columns, i), columns[i].ty)

Sessions ==
  { [ uri |-> httpUriOf(a[1]), wsUri |-> wsUriOf(a[1]), moduleName |-> a[2], authToken |-> a[3],
      connected |-> TRUE, identity |-> <<"identity", 1>>, schema |-> SchemaOf(a[2]),
      wsConnection |-> 1, wsToken |-> <<"token", 1>> ] : a \in ConnectArgs }

\* The manager holds session after one connect, and nothing else is going on.
Connected(session) ==
  /\ connectionState = session /\ subscriptions = EmptyMap /\ tableCache = EmptyMap
  /\ calls = [c \in CallIds |-> Idle] /\ nextCall = 1
  /\ channels = [c \in CallIds |-> IF c = 1 THEN "open" ELSE "none"]
  /\ subRequests = [c \in CallIds |-> "none"]

\* Raw rows a statement result can carry: positional, named, and null.
MaxRows == 2
RawRows == { JArr(<<JStr(<<"7">>), JNum(1)>>), JObj(<< <<<<"id">>, JNum(8)>> >>), Null }
RowLists == UNION {[1..n -> RawRows] : n \in 0..MaxRows}
Statement(rows) == JObj(<< << <<"rows">>, JArr(rows) >> >>)

\* Parsed response bodies: lists of statement results, and what is no list.
SqlDocuments ==
  {JArr(<<Statement(rows)>>) : rows \in RowLists}
    \cup {JArr(<<Statement(rows), Statement(<<JArr(<<JStr(<<"9">>), JNum(0)>>)>>)>>) : rows \in RowLists}
    \cup { JArr(<< >>), JArr(<<JObj(<< >>)>>), JArr(<<Null>>), Null,
           Statement(<<JArr(<<JStr(<<"7">>), JNum(1)>>)>>) }
QueryResponses == {HttpOk([json |-> d]) : d \in SqlDocuments} \cup {HttpError, NetworkFailure}
TableNames == { <<"user">>, <<"msg">>, <<"log">> }

InitAnswer ==
  /\ \E session \in Sessions : Connected(session)
  /\ returned \in {Given("queryTable", <<t, resp>>) : t \in TableNames, resp \in QueryResponses}

\* The response to the SQL request of a queryTable arrives.
answer ==
  /\ returned.fn = "queryTable"
  /\ ~IsApplied("queryTable")
  /\ returned' = Applied("queryTable", returned.args,
                         queryTableResult(returned.args[1], returned.args[2]))
  /\ Still

SpecAnswer == InitAnswer /\ [][answer]_vars

Answered == IsApplied("queryTable")
TableAsked == returned.args[1]
ResponseGiven == returned.args[2]

\* The raw rows of the first statement result of a parsed response; none when
\* the response is empty or no list, or the statement carries no rows.
FirstRows(document) ==
  IF IsArr(document) /\ document.array # << >>
       /\ IsPlainObj(document.array[1]) /\ Has(document.array[1], <<"rows">>)
  THEN Get(document.array[1], <<"rows">>).array
  ELSE << >>

\* The cached schema holds a table of that name.
Cached(tableName) == \E i \in 1..Len(connectionState.schema.tables) :
                       connectionState.schema.tables[i].name = tableName
CachedTable(tableName) ==
  connectionState.schema.tables[CHOOSE i \in 1..Len(connectionState.schema.tables) :
                                  connectionState.schema.tables[i].name = tableName]

\* The rows queryTable is to return for a parsed response.
RowsFor(tableName, document) ==
  IF Cached(tableName)
  THEN [i \in 1..Len(FirstRows(document)) |->
          convertRowTypes(FirstRows(document)[i], CachedTable(tableName))]
  ELSE FirstRows(document)

\* C23: queryTable takes the rows of the first statement result only (an empty
\* or non-list response gives no rows), decodes each row with the cached table
\* schema whose name is the queried table, returns the rows unchanged when the
\* cached schema has no such table, and always reports totalCount equal to
\* the number of rows it returns.
C23_QueryRows ==
  (Answered /\ IsReturn(returned.result))
    => /\ "json" \in DOMAIN ResponseGiven.body
       /\ returned.result.return
            = [ table |-> TableAsked,
                rows |-> JArr(RowsFor(TableAsked, ResponseGiven.body.json)),
                totalCount |-> JNum(Len(RowsFor(TableAsked, ResponseGiven.body.json))) ]
       /\ returned.result.return.totalCount = JNum(Len(returned.result.return.rows.array))
C23_Witness ==
  /\ Answered /\ TableAsked = <<"user">> /\ connectionState.moduleName = <<"m1">>
  /\ IsReturn(returned.result) /\ IsArr(ResponseGiven.body.json)
  /\ Len(ResponseGiven.body.json.array) = 2
  /\ returned.result
       = Return([ table |-> <<"user">>,
                  rows |-> JArr(<< JObj(<< <<<<"id">>, JNum(7)>>, <<<<"online">>, JBool(TRUE)>> >>),
                                   JObj(<< <<<<"id">>, JNum(8)>>, <<<<"online">>, Null>> >>) >>),
                  totalCount |-> JNum(2) ])

\* ---------------------------------------------- the result parser, applied
\* Output text is given by its lines, a line by its cells, a cell by its
\* characters; OutputOf writes the text out, cells joined by " | " and lines
\* by a line feed.
RECURSIVE JoinWith(_, _)
JoinWith(parts, sep) ==
  IF parts = << >> THEN << >>
  ELSE IF Len(parts) = 1 THEN parts[1]
  ELSE parts[1] \o sep \o JoinWith(Tail(parts), sep)

LineOf(cells) == JoinWith(cells, <<" ", "|", " ">>)
OutputOf(lines) == JoinWith([i \in 1..Len(lines) |-> LineOf(lines[i])], <<"\n">>)

\* The cells of the data lines, each with the value it stands for.
CellValues ==
  { << <<"1">>, JNum(1) >>,
    << <<"\"", "B", "o", "b", "\"">>, JStr(<<"B", "o", "b">>) >>,
    << <<"t", "r", "u", "e">>, JBool(TRUE) >>,
    << <<"f", "a", "l", "s", "e">>, JBool(FALSE) >>,
    << <<"-", "2", ".", "5">>, [decimal |-> <<"-", "2", ".", "5">>] >>,
    << <<"x">>, JStr(<<"x">>) >>,
    << << >>, Null >> }
Cells == {cv[1] : cv \in CellValues}
ValueOfCell(cell) == (CHOOSE cv \in CellValues : cv[1] = cell)[2]

MaxCells == 2
DataLines ==
  UNION {[1..n -> Cells] : n \in 1..MaxCells}
    \cup { << <<"1">>, <<"x">>, <<"t", "r", "u", "e">> >> }
LastLines == { << << >> >>, << <<"-", "2", ".", "5">> >>, << << >>, <<"\"", "B", "o", "b", "\"">> >> }
HeaderLines == { << <<"i", "d">>, <<"n", "a", "m", "e">> >>, << <<"i", "d">> >>, << << >>, << >> >> }
SeparatorLine == << <<"-", "+", "-">> >>

\* Tables of up to two data lines, and text of fewer than two lines.
TableTexts ==
  {<<h>> : h \in HeaderLines}
    \cup {<<h, SeparatorLine>> : h \in HeaderLines}
    \cup {<<h, SeparatorLine, d>> : h \in HeaderLines, d \in DataLines}
    \cup {<<h, SeparatorLine, d, e>> : h \in HeaderLines, d \in DataLines, e \in LastLines}
    \cup { << >>, << <<<<"o", "k">>>> >> }

JsonTexts ==
  { JArr(<< >>), JArr(<<JObj(<< <<<<"id">>, JNum(1)>> >>), JObj(<< >>)>>),
    JObj(<< <<<<"id">>, JNum(1)>> >>), JNum(5), JStr(<<"x">>), Null }

\* What the process printed: valid JSON, or the lines of a text that is not.
Outputs == {[json |-> v] : v \in JsonTexts} \cup {[lines |-> t] : t \in TableTexts}
AsOutput(o) == IF IsJson(o) THEN o ELSE [text |-> OutputOf(o.lines)]

InitParse == NoActivity /\ returned \in {Given("parseSqlResult", <<o>>) : o \in Outputs}

\* One call of parseSqlResult(output).
parse ==
  /\ returned.fn = "parseSqlResult"
  /\ ~IsApplied("parseSqlResult")
  /\ returned' = Applied("parseSqlResult", returned.args,
                         parseSqlResult(AsOutput(returned.args[1])))
  /\ Still

SpecParse == InitParse /\ [][parse]_vars

Parsed == IsApplied("parseSqlResult")
OutputGiven == returned.args[1]

\* The column names of a header line: its cells that are not empty.
NamesOf(header) == SelectSeq(header, LAMBDA h : h # << >>)

\* The text is a table: a header line with a column name, and a second line.
IsTable(lines) == Len(lines) >= 2 /\ NamesOf(lines[1]) # << >>

\* The lines after the separator that are not blank.
DataOf(lines) == SelectSeq(SubSeq(lines, 3, Len(lines)), LAMBDA l : l # << << >> >>)

\* The row of one data line: each column name with the value of its cell.
RowOfLine(names, cells) ==
  JObj([i \in 1..Len(names) |->
         <<names[i], IF i <= Len(cells) THEN ValueOfCell(cells[i]) ELSE Null>>])

\* C24: the result parser returns the parsed JSON when the text is valid
\* JSON, a value that is no list wrapped as a one-element list; otherwise it
\* reads line 1 as the pipe-separated column headers, skips line 2, and turns
\* every later line that is not blank into one row keyed by the headers: a
\* double-quoted value is unquoted, a decimal numeral becomes a number, true
\* and false become booleans, an empty or missing value becomes null.
C24_ParsedResult ==
  Parsed
    => IF IsJson(OutputGiven)
       THEN returned.result
              = (IF IsArr(OutputGiven.json) THEN OutputGiven.json ELSE JArr(<<OutputGiven.json>>))
       ELSE IsTable(OutputGiven.lines)
              => returned.result
                   = JArr([i \in 1..Len(DataOf(OutputGiven.lines)) |->
                            RowOfLine(NamesOf(OutputGiven.lines[1]), DataOf(OutputGiven.lines)[i])])
\* id | name, a separator and 1 | "Bob" give the one row {id: 1, name: "Bob"}.
C24_Witness ==
  /\ Parsed /\ ~IsJson(OutputGiven)
  /\ OutputOf(OutputGiven.lines) = SubSeq(BobTable, 1, Len(BobTable) - 1)
  /\ returned.result = JArr(<< JObj(<< << <<"i", "d">>, JNum(1) >>,
                                      << <<"n", "a", "m", "e">>, JStr(<<"B", "o", "b">>) >> >>) >>)

\* The keys of a row, in order.
KeysOf(row) == [i \in 1..Len(row.object) |-> row.object[i][1]]

\* C25: the result parser never raises: it returns a list for every output
\* text; for text that is neither valid JSON nor a table with a header line
\* and a second line (fewer than two lines, or a header line without a column
\* name) the list is empty, and every row of a table has exactly the header
\* names as its keys.
C25_ParserTotal ==
  Parsed
    => /\ IsArr(returned.result)
       /\ ~IsJson(OutputGiven)
            => /\ ~IsTable(OutputGiven.lines) => returned.result = JArr(<< >>)
               /\ \A i \in 1..Len(returned.result.array) :
                    /\ IsPlainObj(returned.result.array[i])
                    /\ KeysOf(returned.result.array[i]) = NamesOf(OutputGiven.lines[1])
\* A header line without a column name: no row, whatever the data lines hold.
C25_Witness ==
  /\ Parsed /\ ~IsJson(OutputGiven)
  /\ OutputGiven.lines = << << << >>, << >> >>, SeparatorLine, << <<"1">> >> >>
  /\ returned.result = JArr(<< >>)

\* ------------------------------------------ the process transport, by event
\* executeCliCommand, lines 788-814, event by event. The invocation's closure
\* holds the text collected so far and its promise; `exit` and `failure`
\* record the close and error events the subprocess has emitted.
Pending == [pending |-> TRUE]
NoEvent == [none |-> TRUE]
MaxChunks == 2
StdoutChunks == { <<"[", "]">>, <<"o", "k">> }
StderrChunks == { <<"n", "o">> }
ExitCodes == { 0, 1, -2 }
CliArgs == { <<"describe">>, <<"sql">> }
Spawned(args) ==
  [ op |-> "executeCliCommand", pc |-> "spawned", args |-> args, stdout |-> << >>,
    stderr |-> << >>, chunks |-> 0, promise |-> Pending, exit |-> NoEvent, failure |-> NoEvent ]

\* The process under way in the last invocation of a connected manager.
TheProcess == MaxCalls
proc == calls[TheProcess]

InitCli ==
  /\ connectionState \in Sessions
  /\ subscriptions = EmptyMap /\ tableCache = EmptyMap
  /\ \E args \in CliArgs :
       /\ calls = [c \in CallIds |-> IF c = TheProcess THEN Spawned(args) ELSE Idle]
       /\ returned = Given("executeCliCommand", <<args>>)
  /\ nextCall = TheProcess
  /\ channels = [c \in CallIds |-> IF c = 1 THEN "open" ELSE "none"]
  /\ subRequests = [c \in CallIds |-> "none"]

\* The promise settles with the first outcome it is given.
settle(outcome) == IF proc.promise = Pending THEN outcome ELSE proc.promise

\* The caller is handed the outcome when the promise settles.
deliver(promise) ==
  returned' = IF proc.promise = Pending /\ promise # Pending
              THEN Applied("executeCliCommand", returned.args, promise)
              ELSE returned

\* proc.stdout.on("data"), lines 794-796.
procStdoutData ==
  /\ proc.exit = NoEvent /\ proc.failure = NoEvent /\ proc.chunks < MaxChunks
  /\ \E data \in StdoutChunks :
       calls' = [calls EXCEPT ![TheProcess].stdout = @ \o data, ![TheProcess].chunks = @ + 1]
  /\ UNCHANGED <<manager, nextCall, channels, subRequests, returned>>

\* proc.stderr.on("data"), lines 798-800.
procStderrData ==
  /\ proc.exit = NoEvent /\ proc.failure = NoEvent /\ proc.chunks < MaxChunks
  /\ \E data \in StderrChunks :
       calls' = [calls EXCEPT ![TheProcess].stderr = @ \o data, ![TheProcess].chunks = @ + 1]
  /\ UNCHANGED <<manager, nextCall, channels, subRequests, returned>>

\* proc.on("close"), lines 802-808. A process that could not be spawned
\* closes with a code that is not 0.
procClose ==
  /\ proc.exit = NoEvent
  /\ \E code \in ExitCodes :
       /\ proc.failure # NoEvent => code # 0
       /\ calls' = [calls EXCEPT
            ![TheProcess].exit = [code |-> code, stdout |-> proc.stdout, stderr |-> proc.stderr],
            ![TheProcess].promise =
               settle(executeCliCommandResult(CliExit(code, proc.stdout, proc.stderr)))]
       /\ deliver(settle(executeCliCommandResult(CliExit(code, proc.stdout, proc.stderr))))
  /\ UNCHANGED <<manager, nextCall, channels, subRequests>>

\* proc.on("error"), lines 810-812: the spawn failed (before any output), or
\* an error is reported once the process has closed.
procError ==
  /\ proc.failure = NoEvent
  /\ proc.exit = NoEvent => proc.chunks = 0
  /\ calls' = [calls EXCEPT
       ![TheProcess].failure = CliSpawnError,
       ![TheProcess].promise = settle(executeCliCommandResult(CliSpawnError))]
  /\ deliver(settle(executeCliCommandResult(CliSpawnError)))
  /\ UNCHANGED <<manager, nextCall, channels, subRequests>>

NextCli == procStdoutData \/ procStderrData \/ procClose \/ procError
SpecCli == InitCli /\ [][NextCli]_vars

\* The outcome the caller of executeCliCommand has been handed.
Delivered == IsApplied("executeCliCommand")
ClosedWith(code) == proc.exit # NoEvent /\ proc.exit.code = code

\* C26: the process transport completes exactly once per invocation: it
\* yields the collected standard-output text if and only if the subprocess
\* closes with exit code 0, and otherwise (an exit code that is not 0, or a
\* failure to spawn) raises an error that carries the exit code and the
\* collected standard-error text, or the text of the spawn failure; a later
\* close or error event of the same subprocess does not change the outcome
\* already delivered.
C26_CompletesOnce ==
  /\ [](/\ Delivered <=> (proc.exit # NoEvent \/ proc.failure # NoEvent)
        /\ Delivered => returned.result = proc.promise
        /\ Delivered =>
             /\ IsReturn(returned.result) <=> ClosedWith(0)
             /\ IsReturn(returned.result) => returned.result = Return(proc.exit.stdout)
             /\ IsThrow(returned.result) =>
                  \/ /\ proc.failure # NoEvent
                     /\ returned.result
                          = Throw(<<"Failed to execute CLI command: ">> \o proc.failure.error)
                  \/ /\ proc.exit # NoEvent /\ proc.exit.code # 0
                     /\ returned.result
                          = Throw(<<"CLI command failed (exit code ">> \o NumText(proc.exit.code)
                                    \o <<"): ">> \o proc.exit.stderr))
  /\ [][Delivered => returned' = returned]_vars
\* The spawn failed, the error was delivered, and the close that followed
\* left it as it was.
C26_Witness ==
  /\ Delivered /\ proc.failure # NoEvent /\ proc.exit # NoEvent
  /\ returned.result = Throw(<<"Failed to execute CLI command: ">> \o CliSpawnError.error)

\* ------------------------------------- the describe operations, by outcome
\* What `spacetime describe --json` can end with, and documents that hold no
\* list where one is expected.
DescribeOutcomes ==
  DescribeEvents
    \cup { CliExit(0, [json |-> Null], << >>),
           CliExit(0, [json |-> JArr(<< >>)], << >>),
           CliExit(0, [json |-> JObj(<< << <<"tables">>, JStr(<<"none">>) >>,
                                        << <<"reducers">>, JArr(<<Null>>) >> >>)], << >>),
           CliExit(0, [json |-> JObj(<< << <<"tables">>, JArr(<<Null>>) >>,
                                        << <<"reducers">>, JNum(0) >> >>)], << >>) }

\* The operation, its argument, and what its process ends with.
DescribeCalls ==
  {<<"listTables", JBool(b), ev>> : b \in BOOLEAN, ev \in DescribeOutcomes}
    \cup {<<"getSchema", t, ev>> : t \in {Undefined, JStr(<<"user">>), JStr(<<"log">>)},
                                   ev \in DescribeOutcomes}
    \cup {<<"listReducers", JBool(b), ev>> : b \in BOOLEAN, ev \in DescribeOutcomes}

\* The manager has been disconnected since the operation was invoked.
Disconnected ==
  /\ connectionState = Null /\ subscriptions = EmptyMap /\ tableCache = EmptyMap
  /\ calls = [c \in CallIds |-> Idle] /\ nextCall = 1
  /\ channels = [c \in CallIds |-> IF c = 1 THEN "closed" ELSE "none"]
  /\ subRequests = [c \in CallIds |-> "none"]

InitDescribe ==
  /\ Disconnected \/ \E session \in Sessions : Connected(session)
  /\ returned \in {Given(call[1], <<call[2], call[3]>>) : call \in DescribeCalls}

Ends(op, outcome) ==
  /\ returned.fn = op /\ ~IsApplied(op)
  /\ returned' = Applied(op, returned.args, outcome)
  /\ Still

\* The process of a listTables, getSchema or listReducers invoked while
\* connected ends, and the operation settles.
listTablesEnds ==
  Ends("listTables",
       listTablesResult(executeCliCommandResult(returned.args[2]), returned.args[1].boolean))
getSchemaEnds ==
  Ends("getSchema", getSchemaResult(executeCliCommandResult(returned.args[2]), returned.args[1]))
listReducersEnds ==
  Ends("listReducers",
       listReducersResult(executeCliCommandResult(returned.args[2]), returned.args[1].boolean))

NextDescribe == listTablesEnds \/ getSchemaEnds \/ listReducersEnds
SpecDescribe == InitDescribe /\ [][NextDescribe]_vars

Ended(op) == IsApplied(op)
ArgGiven == returned.args[1]
OutcomeGiven == returned.args[2]

\* The subprocess failed; its output is not JSON; its JSON holds no list
\* under the key.
ProcessFailed(ev) == "error" \in DOMAIN ev \/ ev.code # 0
NotJson(ev) == ~ProcessFailed(ev) /\ ~IsJson(ev.stdout)
LacksList(ev, key) ==
  /\ ~ProcessFailed(ev) /\ IsJson(ev.stdout)
  /\ ~(IsPlainObj(ev.stdout.json) /\ Has(ev.stdout.json, key)
         /\ IsArr(Get(ev.stdout.json, key)))

\* The names of the entries of a returned list.
NamesListed(list) == [i \in 1..Len(list.array) |-> Get(list.array[i], <<"name">>)]
PlaceholderTables == << JStr(<<"users">>), JStr(<<"messages">>) >>
PlaceholderReducers ==
  << JStr(<<"init">>), JStr(<<"send_message">>), JStr(<<"set_name">>), JStr(<<"update_user">>) >>

Reported == returned.outcome.return

\* The keys of the subscription registry.
RegistryKeys == {subscriptions[i][1] : i \in 1..Len(subscriptions)}

\* A URI in the form HTTP requests are sent to.
IsRequestForm(uri) == startsWith(uri, "http://") \/ startsWith(uri, "https://")

DisconnectReturned == returned # NoReturn /\ returned.op = "disconnect"

\* The connect invocation c has been invoked and has not settled yet: it awaits
\* the schema fetch or the streaming handshake.
ConnectInFlight(c) == calls[c] # Idle /\ calls[c].op = "connect"

\* The stored session is the one the connect invocation c created.
SessionOf(c) == connectionState # Null /\ connectionState.wsConnection = c

\* C29: once disconnect has returned, a connect invocation that was in flight
\* when it ran does not make the manager connected and leaves no open
\* streaming channel behind. Stated of the step that follows the return of
\* disconnect: the invocations in flight then are those that were in flight
\* when disconnect ran, since disconnect awaits nothing.
C29_DisconnectWins ==
  [][ \A c \in CallIds :
        DisconnectReturned /\ ConnectInFlight(c)
          => ~SessionOf(c)' /\ channels'[c] # "open" ]_vars

\* ------------------------------------------------------------ registry across sessions
\* The connect invocation c settles by returning its result.
ConnectSucceeds(c) ==
  Settled(c, "connect") /\ returned' # NoReturn /\ IsReturn(returned'.outcome)

\* The registry entries written by a subscribeTable that was invoked before the
\* connect invocation c was: invocations are numbered in the order they are
\* made, and subscribeTable takes its channel from the session stored when it
\* is invoked (line 618), so these were subscribed on an earlier session's
\* channel.
EarlierEntries(registry, c) ==
  {i \in 1..Len(registry) : registry[i][2].request < c}

\* C30: after a successful connect the subscription registry holds only tables
\* subscribed on the streaming channel of the session that connect created; no
\* entry from an earlier session survives a connect that replaces it.
C30_RegistryOfThisSession ==
  [][ \A c \in CallIds :
        ConnectSucceeds(c) => /\ SessionOf(c)'
                              /\ EarlierEntries(subscriptions', c) = {} ]_vars

\* ------------------------------------------------------------ queryTable across sessions
\* The modules whose SQL endpoint the request of the queryTable invocation c
\* was addressed to: the module of the session it was sent under.
ModulesAsked(c) ==
  { a[2] : a \in { b \in ConnectArgs :
                     calls[c].request.url
                       = httpUriOf(b[1]) \o <<"/v1/database/">> \o b[2] \o <<"/sql">> } }

\* What queryTable returns for a parsed response when its rows are decoded
\* with the given schema.
RowsUnder(schema, tableName, result) ==
  IF IsArr(result) /\ Len(result.array) > 0
  THEN decodeRows(tableName, rawRowsOf(result.array[1]), findTable(schema, tableName))
  ELSE Return([table |-> tableName, rows |-> JArr(<< >>), totalCount |-> JNum(0)])

\* The answers of the SQL endpoint that carry a parsed document.
ParsedAnswers == {resp \in SqlResponses : ~IsFailure(resp) /\ resp.ok /\ "json" \in DOMAIN resp.body}

\* C31: the rows queryTable returns are decoded with the schema of the session
\* its request was sent under, never with that of a session stored while the
\* request was in flight.
C31_RowsOfRequestSession ==
  [][ \A c \in CallIds :
        Settled(c, "queryTable") /\ returned' # NoReturn /\ IsReturn(returned'.outcome)
          => \E m \in ModulesAsked(c), resp \in ParsedAnswers :
               returned'.outcome = RowsUnder(SchemaOf(m), calls[c].tableName, resp.body.json) ]_vars

\* ------------------------------------------------------------ the stored session
\* The session holds what one connect invocation, made with the arguments a
\* and building the channel c, gathered: both URI forms, the module name, the
\* auth token, the schema served for that module, and the channel handle,
\* identity and token of its handshake.
GatheredBy(session, a, c) ==
  /\ session.uri = httpUriOf(a[1]) /\ session.wsUri = wsUriOf(a[1])
  /\ session.moduleName = a[2] /\ session.authToken = a[3]
  /\ session.schema = SchemaOf(a[2])
  /\ session.wsConnection = c /\ channels[c] # "none"
  /\ session.identity = <<"identity", c>> /\ session.wsToken = <<"token", c>>

Untorn ==
  connectionState # Null =>
    \E a \in ConnectArgs, c \in CallIds : GatheredBy(connectionState, a, c)

\* The session stored by this step is made of the locals of the connect
\* invocation c, which returns in the same step.
StoredBy(c) ==
  /\ ConnectSucceeds(c)
  /\ connectionState'.uri = calls[c].uri /\ connectionState'.wsUri = calls[c].wsUri
  /\ connectionState'.moduleName = calls[c].moduleName
  /\ connectionState'.authToken = calls[c].authToken
  /\ connectionState'.schema = calls[c].schema
  /\ connectionState'.wsConnection = c /\ channels'[c] = "open"

\* C32: in every reachable state the stored session is untorn: its request
\* URI, streaming URI, module name, auth token, cached schema, channel handle,
\* identity and session token all come from one successful connect
\* invocation, also when connect invocations overlap.
C32_SessionUntorn ==
  /\ []Untorn
  /\ [][ connectionState' # connectionState /\ connectionState' # Null
           => \E c \in CallIds : StoredBy(c) ]_vars
\* A connect has stored its session while another connect, to another module
\* and with its schema already fetched, is in flight.
C32_Witness ==
  /\ returned # NoReturn /\ returned.op = "connect" /\ IsReturn(returned.outcome)
  /\ connectionState # Null
  /\ \E d \in CallIds :
       /\ ConnectInFlight(d) /\ calls[d].pc = "connectWebSocket"
       /\ calls[d].moduleName # connectionState.moduleName

\* ------------------------------------------------------------ registrations and registry
\* The channel ch is the only one ever built, it is the stored session's, and
\* it is open: every subscription request made so far was registered on it.
OnlyChannel(ch) ==
  /\ SessionOf(ch) /\ channels[ch] = "open"
  /\ \A other \in CallIds \ {ch} : channels[other] = "none"

\* The subscription requests that were applied and whose subscribeTable has
\* returned: nothing in the code withdraws them from the channel.
Registrations == {c \in CallIds : subRequests[c] = "delivered"}

\* No subscribeTable invocation is in flight.
NoSubscribeInFlight == \A c \in CallIds : calls[c] = Idle \/ calls[c].op # "subscribeTable"

\* C33: the registry holds at most one entry per table name, and the number of
\* subscription requests registered on the current streaming channel equals
\* the number of registry entries; subscribing again to a table already in
\* the registry leaves no second registration on the channel. Stated for the
\* states in which no subscribeTable is under way.
C33_OneRegistrationPerEntry ==
  /\ Cardinality(RegistryKeys) = Len(subscriptions)
  /\ \A ch \in CallIds :
       OnlyChannel(ch) /\ NoSubscribeInFlight
         => Cardinality(Registrations) = Len(subscriptions)

\* ------------------------------------------------------------ failed subscriptions
\* In the requests io, the snapshot query comes first and any subscription
\* request after it.
SnapshotFirst(io) ==
  \A i \in 1..Len(io) : io[i] = "ws subscribe" => i > 1 /\ io[1] = "POST sql"

\* The subscribeTable invocation c settles on the failure of its snapshot
\* query, whose error queryTable words as "Query failed: ...".
SnapshotFails(c) ==
  /\ Settled(c, "subscribeTable") /\ calls[c].pc = "queryTable"
  /\ returned' # NoReturn /\ IsThrow(returned'.outcome)
  /\ Sent(returned'.outcome.throw, "Query failed: ")

\* The subscribeTable invocation c settles on the channel's subscription error.
SubscriptionErrors(c) ==
  Settled(c, "subscribeTable") /\ subRequests[c] = "pending" /\ subRequests'[c] = "error"

\* The completed subscribeTable raised a 'Subscription failed' error and left
\* the registry and the session as they were.
FailsClean ==
  /\ returned' # NoReturn /\ IsThrow(returned'.outcome)
  /\ returned'.outcome.throw[1] = "Subscription failed: "
  /\ subscriptions' = subscriptions /\ connectionState' = connectionState

\* C34: subscribeTable issues its snapshot query before it registers anything
\* on the streaming channel; when the query fails no subscription request is
\* sent; when the query fails or the channel reports a subscription error the
\* call raises a 'Subscription failed' error and leaves the registry and the
\* session unchanged.
C34_SubscribeFailsClean ==
  /\ [](\A c \in CallIds :
          calls[c] # Idle /\ calls[c].op = "subscribeTable"
            => /\ SnapshotFirst(calls[c].io)
               /\ calls[c].pc = "queryTable" => subRequests[c] = "none")
  /\ [][ \A c \in CallIds :
           /\ SnapshotFails(c) =>
                /\ FailsClean
                /\ ~Sent(returned'.io, "ws subscribe") /\ subRequests'[c] = "none"
           /\ SubscriptionErrors(c) => FailsClean /\ SnapshotFirst(returned'.io) ]_vars
\* A subscription error has been raised while the registry held an entry.
C34_Witness ==
  /\ returned # NoReturn /\ returned.op = "subscribeTable"
  /\ IsThrow(returned.outcome)
  /\ returned.outcome.throw = <<"Subscription failed: ", "Subscription error">>
  /\ subscriptions # EmptyMap /\ connectionState # Null
  /\ \E c \in CallIds : subRequests[c] = "error"

\* ------------------------------------------------------------ MCP resource handlers
\* new McpError(code, message).
McpError(code, message) == [throw |-> message, code |-> code]

\* The resource entry of one table, part_003 lines 423-428.
tableResource(table) ==
  [ uri |-> <<"spacetimedb://tables/">> \o ToText(Prop(table, <<"name">>)),
    name |-> <<"Table: ">> \o ToText(Prop(table, <<"name">>)),
    description |-> <<"Access data from the ">> \o ToText(Prop(table, <<"name">>)) \o <<" table">>,
    mimeType |-> "application/json" ]

\* A listing that leaves the reducers entry out.
listResourcesResult_noReducers(tables) ==
  IF ~isConnected
  THEN [called |-> << >>, outcome |-> Return([resources |-> << >>])]
  ELSE [ called |-> <<"listTables">>,
         outcome |->
           IF IsThrow(tables) \/ ~IsArr(tables.return)
              \/ \E i \in 1..Len(tables.return.array) : IsNullish(tables.return.array[i])
           THEN Return([resources |-> << >>])
           ELSE Return([ resources |->
                  [i \in 1..Len(tables.return.array) |-> tableResource(tables.return.array[i])]
                  \o << [ uri |-> <<"spacetimedb://schema">>, name |-> <<"Database Schema">>,
                          description |-> <<"Complete database schema information">>,
                          mimeType |-> "application/json" ] >> ]) ]

\* The ListResources handler, part_003 lines 415-449, for what listTables(false)
\* settles to: the manager operations it called and what it answers.
listResourcesResult(tables) ==
  IF ~isConnected
  THEN [called |-> << >>, outcome |-> Return([resources |-> << >>])]
  ELSE [ called |-> <<"listTables">>,
         outcome |->
           IF IsThrow(tables) \/ ~IsArr(tables.return)
              \/ \E i \in 1..Len(tables.return.array) : IsNullish(tables.return.array[i])
           THEN Return([resources |-> << >>])
           ELSE Return([ resources |->
                  [i \in 1..Len(tables.return.array) |-> tableResource(tables.return.array[i])]
                  \o << [ uri |-> <<"spacetimedb://schema">>, name |-> <<"Database Schema">>,
                          description |-> <<"Complete database schema information">>,
                          mimeType |-> "application/json" ],
                        [ uri |-> <<"spacetimedb://reducers">>, name |-> <<"Available Reducers">>,
                          description |-> <<"List of all callable reducers">>,
                          mimeType |-> "application/json" ] >> ]) ]

\* The reply of the ReadResource handler for what a manager operation settled
\* to: its error is passed on, its result is sent as JSON text.
contentsOf(uri, r) ==
  IF IsThrow(r) THEN r
  ELSE Return([contents |-> << [uri |-> uri, mimeType |-> "application/json",
                               text |-> [json |-> r.return]] >>])

\* The ReadResource handler, part_003 lines 451-508, for the resource uri and
\* the reply the manager operation it calls gets from its collaborator. The
\* table name is the URI with its first "spacetimedb://tables/" removed.
readResourceResult(uri, reply) ==
  IF ~isConnected
  THEN [ called |-> << >>,
         outcome |-> McpError("InvalidRequest",
                              <<"Not connected to SpacetimeDB. Use spacetimedb_connect first.">>) ]
  ELSE IF startsWith(uri, "spacetimedb://tables/")
  THEN [ called |-> <<"queryTable">>,
         outcome |-> contentsOf(uri, queryTableResult(Tail(uri), reply)) ]
  ELSE IF uri = <<"spacetimedb://schema">>
  THEN [ called |-> <<"getSchema">>,
         outcome |-> contentsOf(uri, getSchemaResult(executeCliCommandResult(reply), Undefined)) ]
  ELSE IF uri = <<"spacetimedb://reducers">>
  THEN [ called |-> <<"listReducers">>,
         outcome |-> contentsOf(uri, listReducersResult(executeCliCommandResult(reply), TRUE)) ]
  ELSE [ called |-> << >>,
         outcome |-> McpError("InvalidRequest", <<"Unknown resource: ">> \o uri) ]

\* The resources a client asks for.
ResourceUris ==
  { <<"spacetimedb://tables/", "user">>, <<"spacetimedb://tables/", "msg">>,
    <<"spacetimedb://schema">>, <<"spacetimedb://reducers">>, <<"spacetimedb://other">> }

\* What the collaborator of the manager operation behind a resource can reply.
AnswersFor(uri) ==
  IF startsWith(uri, "spacetimedb://tables/") THEN SqlResponses ELSE DescribeOutcomes

ResourceRequests ==
  {Given("listResources", <<ev>>) : ev \in DescribeOutcomes}
    \cup UNION { {Given("readResource", <<uri, reply>>) : reply \in AnswersFor(uri)}
                 : uri \in ResourceUris }

InitResources ==
  /\ NoActivity \/ Disconnected \/ \E session \in Sessions : Connected(session)
  /\ returned \in ResourceRequests

listResources ==
  Ends("listResources",
       listResourcesResult(IF isConnected
                           THEN listTablesResult(executeCliCommandResult(returned.args[1]), FALSE)
                           ELSE Throw(NotConnectedError)))

readResource ==
  Ends("readResource", readResourceResult(returned.args[1], returned.args[2]))

NextResources == listResources \/ readResource
SpecResources == InitResources /\ [][NextResources]_vars

\* The tables listTables(false) returns for the process outcome ev.
TablesListed(ev) == listTablesResult(executeCliCommandResult(ev), FALSE).return.array

\* The listing has one tables entry per listed table, in order, followed by
\* the schema entry and the reducers entry, and nothing else.
ListsExactly(resources, tables) ==
  /\ Len(resources) = Len(tables) + 2
  /\ \A i \in 1..Len(tables) :
       resources[i].uri = <<"spacetimedb://tables/">> \o ToText(Prop(tables[i], <<"name">>))
  /\ resources[Len(tables) + 1].uri = <<"spacetimedb://schema">>
  /\ resources[Len(tables) + 2].uri = <<"spacetimedb://reducers">>

\* C35: while the manager is disconnected, listing resources returns an empty
\* list and reading any resource fails with an invalid-request error, both
\* without calling a manager operation; while it is connected the listing has
\* one spacetimedb://tables/<name> entry per table listTables returns, plus
\* exactly spacetimedb://schema and spacetimedb://reducers.
C35_ResourceHandlers ==
  /\ IsApplied("listResources") /\ ~isConnected
       => /\ returned.result.called = << >>
          /\ returned.result.outcome = Return([resources |-> << >>])
  /\ IsApplied("readResource") /\ ~isConnected
       => /\ returned.result.called = << >>
          /\ IsThrow(returned.result.outcome)
          /\ returned.result.outcome.code = "InvalidRequest"
  /\ IsApplied("listResources") /\ isConnected
       => /\ IsReturn(returned.result.outcome)
          /\ ListsExactly(returned.result.outcome.return.resources,
                          TablesListed(returned.args[1]))
\* The tables of a describe document have been listed while connected.
C35_Witness ==
  /\ IsApplied("listResources") /\ isConnected
  /\ returned.args[1] = CliExit(0, [json |-> DescribeDoc], << >>)
  /\ Len(returned.result.outcome.return.resources) = 3
  /\ returned.result.outcome.return.resources[1].uri = <<"spacetimedb://tables/", "user">>

\* ------------------------------------------------------------ stored means connected
\* A session is stored.
SessionStored == connectionState # Null

\* C36: in every reachable state a session is stored if and only if
\* isConnected() is true, the connected flag of a stored session is never
\* false, and only a connect that succeeds and disconnect change whether a
\* session is stored.
C36_StoredIffConnected ==
  /\ [](/\ SessionStored <=> isConnected
        /\ SessionStored => connectionState.connected = TRUE)
  /\ [][ SessionStored' # SessionStored =>
           \/ SettledAtOnce("disconnect") /\ ~SessionStored'
           \/ \E c \in CallIds : ConnectSucceeds(c) /\ SessionStored' ]_vars
\* The channel of the stored session has dropped and the manager still
\* reports connected.
C36_Witness ==
  /\ SessionStored /\ isConnected
  /\ channels[connectionState.wsConnection] = "closed"
====
